---- MODULE Spec2Model ----
(***************************************************************************)
(* Collaborative canvas server: the per-room operation log (DrawingState), *)
(* the room registry (RoomManager) and the per-connection socket handlers  *)
(* of the server, as one state machine.  One step of Next is one callback  *)
(* run to completion by the Node.js event loop: a socket.io event handler, *)
(* a room-deletion timer callback, or the passage of time.                 *)
(***************************************************************************)
EXTENDS Integers, Sequences, FiniteSets, TLC

(***************************************************************************)
(* Bounds of the model.                                                    *)
(***************************************************************************)
NumSessions == 3
MaxOps == 1
TicksPerGrace == 2
DrawSessions == 2
LeaveSessions == 3
NumRooms == 2
LogMaxOps == 3
LogWidths == 2
UndoMaxOps == 2
\* largest roster the colour assignment is computed for: beyond the palette
CrowdMax == 11
\* readings of the client's clock: ClockSteps steps of ClockStepMs
ClockSteps == 6

Max(a, b) == IF a > b THEN a ELSE b
Sessions == 1..Max(NumSessions, Max(DrawSessions, LeaveSessions))
Null == -1

(***************************************************************************)
(* Program constants.                                                      *)
(***************************************************************************)
\* server: currentRoom = roomId || 'default'.  Room ids are numbered; 0 is
\* the room named 'default', 1..NumRooms-1 are rooms named by the client.
DefaultRoom == 0
Rooms == 0..(NumRooms - 1)
\* a falsy roomId / username sent by the client (undefined or '')
NoRoomId == Null
NoName == ""
RoomIdInputs == {NoRoomId} \cup (1..(NumRooms - 1))
\* the display name a client sends: none from odd sockets, "Ann" from even ones
UsernameInput(s) == IF s % 2 = 1 THEN NoName ELSE "Ann"

\* RoomManager.userColors
userColors ==
  << "#FF6B6B", "#4ECDC4", "#45B7D1", "#FFA07A", "#98D8C8",
     "#F7DC6F", "#BB8FCE", "#85C1E2", "#F8B739", "#52B788" >>

\* delay of the room-deletion timer, in ms, and the step of the model clock
GraceMs == 5 * 60 * 1000
TickMs == GraceMs \div TicksPerGrace

\* payload of a draw event (a live stroke point) and of a cursor-move event
DrawInputs == { [type |-> "continue", point |-> [x |-> 1, y |-> 1]] }
CursorInputs == { [x |-> 1, y |-> 1] }

\* payload of a stroke-complete event, as sent by the client
StrokeInputs(widths) ==
  { [tool |-> "brush", color |-> "#000000", lineWidth |-> w,
     points |-> << [x |-> 0, y |-> 0] >>] : w \in 1..widths }
\* the stroke every client draws where the strokes need not differ
OneStroke == StrokeInputs(1)
\* Date.now(): the server stores the value and never reads it; one token
\* stands for every value
Stamps == {"now"}

VARIABLES
  rooms,        \* RoomManager.rooms: room id -> room record (a Map)
  sock,         \* per connection: "idle" (not yet connected), "open", "closed"
  currentRoom,  \* per connection: closure variable currentRoom (Null = null)
  currentUser,  \* per connection: closure variable currentUser (<<>> = null)
  ioRooms,      \* per connection: socket.io rooms the socket has joined
  timers,       \* pending setTimeout callbacks: <<[roomId, remaining]>>
  out,          \* per connection: messages emitted to it by the last callback
  emptyAge,     \* per room id: ms since its roster was last emptied (Null = not)
  logAtEmpty,   \* per room id: <<log>> as it was when the roster was emptied
  canvas,       \* per connection: the strokes its client has on its canvas
  wsm           \* one client's WebSocketManager, its clock and what it emitted

vars == << rooms, sock, currentRoom, currentUser, ioRooms, timers, out,
           emptyAge, logAtEmpty, canvas, wsm >>

(***************************************************************************)
(* JavaScript helpers.                                                     *)
(***************************************************************************)
Min(a, b) == IF a < b THEN a ELSE b

\* Array.prototype.slice(start, end) for 0 <= start, 0 <= end
slice(arr, start, end) == SubSeq(arr, start + 1, Min(end, Len(arr)))

\* Array.prototype.splice(start): the array that is left, arr[0..start)
splice(arr, start) == SubSeq(arr, 1, Min(start, Len(arr)))

\* Map keyed by user id, kept as the sequence of its values in insertion order
MapHas(m, k) == \E i \in 1..Len(m) : m[i].id = k
MapGet(m, k) == LET i == CHOOSE i \in 1..Len(m) : m[i].id = k IN m[i]
MapSet(m, k, v) ==
  IF MapHas(m, k)
  THEN [i \in 1..Len(m) |-> IF m[i].id = k THEN v ELSE m[i]]
  ELSE Append(m, v)
MapDelete(m, k) == SelectSeq(m, LAMBDA u : u.id # k)

RemoveAt(s, i) == SubSeq(s, 1, i - 1) \o SubSeq(s, i + 1, Len(s))

(***************************************************************************)
(* class DrawingState.  A method is an operator from the object to the     *)
(* object after the call (ds) and the returned value (result); a returned  *)
(* null is <<>> and a returned object r is <<r>>.                          *)
(***************************************************************************)
NewDrawingState(roomId) ==
  [roomId |-> roomId, operations |-> <<>>, currentIndex |-> -1]

\* faulty variant: the operations after currentIndex are not removed
addOperation_noSplice(this, operation, now) ==
  LET opWithMetadata == [id |-> Len(this.operations), timestamp |-> now] @@ operation
  IN [ds |-> [this EXCEPT !.operations = Append(this.operations, opWithMetadata),
                          !.currentIndex = this.currentIndex + 1],
      result |-> opWithMetadata.id]

\* faulty variant: the id is the length before the operations after
\* currentIndex are removed
addOperation_idBeforeSplice(this, operation, now) ==
  LET ops1 == IF this.currentIndex < Len(this.operations) - 1
              THEN splice(this.operations, this.currentIndex + 1)
              ELSE this.operations
      opWithMetadata == [id |-> Len(this.operations), timestamp |-> now] @@ operation
  IN [ds |-> [this EXCEPT !.operations = Append(ops1, opWithMetadata),
                          !.currentIndex = this.currentIndex + 1],
      result |-> opWithMetadata.id]

addOperation(this, operation, now) ==
  LET ops1 == IF this.currentIndex < Len(this.operations) - 1
              THEN splice(this.operations, this.currentIndex + 1)
              ELSE this.operations
      opWithMetadata == [id |-> Len(ops1), timestamp |-> now] @@ operation
  IN [ds |-> [this EXCEPT !.operations = Append(ops1, opWithMetadata),
                          !.currentIndex = this.currentIndex + 1],
      result |-> opWithMetadata.id]

\* faulty variant: the index reported is the one before the decrement
undo_staleIndex(this) ==
  IF this.currentIndex < 0
  THEN [ds |-> this, result |-> <<>>]
  ELSE LET operation == this.operations[this.currentIndex + 1]
           ds1 == [this EXCEPT !.currentIndex = this.currentIndex - 1]
       IN [ds |-> ds1,
           result |-> << [type |-> "undo", operation |-> operation,
                          newIndex |-> this.currentIndex] >>]

\* faulty variant: the undone operation is marked in place
undo_mark(this) ==
  IF this.currentIndex < 0
  THEN [ds |-> this, result |-> <<>>]
  ELSE LET operation == this.operations[this.currentIndex + 1]
           ds1 == [this EXCEPT !.operations[this.currentIndex + 1].type = "undone",
                               !.currentIndex = this.currentIndex - 1]
       IN [ds |-> ds1,
           result |-> << [type |-> "undo", operation |-> operation,
                          newIndex |-> ds1.currentIndex] >>]

\* faulty variant: the undone operation is popped off the array
undo_pop(this) ==
  IF this.currentIndex < 0
  THEN [ds |-> this, result |-> <<>>]
  ELSE LET operation == this.operations[this.currentIndex + 1]
           ds1 == [this EXCEPT !.operations = splice(this.operations, this.currentIndex),
                               !.currentIndex = this.currentIndex - 1]
       IN [ds |-> ds1,
           result |-> << [type |-> "undo", operation |-> operation,
                          newIndex |-> ds1.currentIndex] >>]

undo(this) ==
  IF this.currentIndex < 0
  THEN [ds |-> this, result |-> <<>>]
  ELSE LET operation == this.operations[this.currentIndex + 1]
           ds1 == [this EXCEPT !.currentIndex = this.currentIndex - 1]
       IN [ds |-> ds1,
           result |-> << [type |-> "undo", operation |-> operation,
                          newIndex |-> ds1.currentIndex] >>]

\* faulty variant: the index reported is the one before the increment
redo_staleIndex(this) ==
  IF this.currentIndex >= Len(this.operations) - 1
  THEN [ds |-> this, result |-> <<>>]
  ELSE LET ds1 == [this EXCEPT !.currentIndex = this.currentIndex + 1]
           operation == ds1.operations[ds1.currentIndex + 1]
       IN [ds |-> ds1,
           result |-> << [type |-> "redo", operation |-> operation,
                          newIndex |-> this.currentIndex] >>]

redo(this) ==
  IF this.currentIndex >= Len(this.operations) - 1
  THEN [ds |-> this, result |-> <<>>]
  ELSE LET ds1 == [this EXCEPT !.currentIndex = this.currentIndex + 1]
           operation == ds1.operations[ds1.currentIndex + 1]
       IN [ds |-> ds1,
           result |-> << [type |-> "redo", operation |-> operation,
                          newIndex |-> ds1.currentIndex] >>]

\* faulty variant: slice(0, currentIndex), one operation short
getActiveOperations_short(this) ==
  [ds |-> this, result |-> slice(this.operations, 0, this.currentIndex)]

getActiveOperations(this) ==
  [ds |-> this, result |-> slice(this.operations, 0, this.currentIndex + 1)]

\* faulty variant: the snapshot call drops the undone operations from the log
getFullState_trim(this) ==
  LET active == getActiveOperations(this)
  IN [ds |-> [active.ds EXCEPT !.operations = active.result],
      result |-> [operations |-> active.result,
                  currentIndex |-> active.ds.currentIndex]]

getFullState(this) ==
  LET active == getActiveOperations(this)
  IN [ds |-> active.ds,
      result |-> [operations |-> active.result,
                  currentIndex |-> active.ds.currentIndex]]

\* faulty variant: the operations are kept and only currentIndex is reset
clear_keepOps(this) ==
  [ds |-> [this EXCEPT !.currentIndex = -1], result |-> <<>>]

\* faulty variant: currentIndex is not reset
clear_keepIndex(this) ==
  [ds |-> [this EXCEPT !.operations = <<>>], result |-> <<>>]

clear(this) ==
  [ds |-> [this EXCEPT !.operations = <<>>, !.currentIndex = -1],
   result |-> <<>>]

(***************************************************************************)
(* class RoomManager.  A method is an operator from the registry (rms) to  *)
(* the registry after the call and the returned value.  createdAt and      *)
(* joinedAt are written and never read; they are left out of the records.  *)
(***************************************************************************)
\* new Map()
NoRooms == [r \in {} |-> NewDrawingState(r)]

NewRoom(roomId) ==
  [id |-> roomId, users |-> <<>>, drawingState |-> NewDrawingState(roomId)]

\* faulty variant: every call stores a new room under the id
getRoom_reset(rms, roomId) ==
  LET rms1 == [r \in DOMAIN rms \cup {roomId} |->
                 IF r = roomId THEN NewRoom(roomId) ELSE rms[r]]
  IN [rooms |-> rms1, result |-> rms1[roomId]]

getRoom(rms, roomId) ==
  LET rms1 == IF roomId \notin DOMAIN rms
              THEN [r \in DOMAIN rms \cup {roomId} |->
                      IF r = roomId THEN NewRoom(roomId) ELSE rms[r]]
              ELSE rms
  IN [rooms |-> rms1, result |-> rms1[roomId]]

DefaultUsername(n) == "User" \o ToString(n)

\* faulty variant: the colour is picked by the socket, not by the roster size
addUserToRoom_bySocket(rms, roomId, socketId, username) ==
  LET got == getRoom(rms, roomId)
      room == got.result
      colorIndex == (socketId - 1) % Len(userColors)
      user == [id |-> socketId,
               username |-> IF username # NoName THEN username
                            ELSE DefaultUsername(Len(room.users) + 1),
               color |-> userColors[colorIndex + 1],
               cursor |-> [x |-> 0, y |-> 0]]
  IN [rooms |-> [got.rooms EXCEPT ![roomId].users = MapSet(@, socketId, user)],
      result |-> user]

addUserToRoom(rms, roomId, socketId, username) ==
  LET got == getRoom(rms, roomId)
      room == got.result
      colorIndex == Len(room.users) % Len(userColors)
      user == [id |-> socketId,
               username |-> IF username # NoName THEN username
                            ELSE DefaultUsername(Len(room.users) + 1),
               color |-> userColors[colorIndex + 1],
               cursor |-> [x |-> 0, y |-> 0]]
  IN [rooms |-> [got.rooms EXCEPT ![roomId].users = MapSet(@, socketId, user)],
      result |-> user]

\* faulty variant: no deletion timer is armed
removeUserFromRoom_noTimer(rms, tms, roomId, socketId) ==
  IF roomId \notin DOMAIN rms
  THEN [rooms |-> rms, timers |-> tms]
  ELSE [rooms |-> [rms EXCEPT ![roomId].users = MapDelete(@, socketId)],
        timers |-> tms]

\* the registry and the timer list after the call
removeUserFromRoom(rms, tms, roomId, socketId) ==
  IF roomId \notin DOMAIN rms
  THEN [rooms |-> rms, timers |-> tms]
  ELSE LET rms1 == [rms EXCEPT ![roomId].users = MapDelete(@, socketId)]
       IN [rooms |-> rms1,
           timers |-> IF Len(rms1[roomId].users) = 0
                      THEN Append(tms, [roomId |-> roomId, remaining |-> GraceMs])
                      ELSE tms]

getUser(rms, roomId, socketId) ==
  IF roomId \in DOMAIN rms /\ MapHas(rms[roomId].users, socketId)
  THEN << MapGet(rms[roomId].users, socketId) >>
  ELSE <<>>

getRoomUsers(rms, roomId) ==
  IF roomId \in DOMAIN rms THEN rms[roomId].users ELSE <<>>

\* faulty variant: the room is looked up with getRoom, which creates it
updateUserCursor_fabricate(rms, roomId, socketId, cursor) ==
  LET got == getRoom(rms, roomId)
  IN IF MapHas(got.result.users, socketId)
     THEN [got.rooms EXCEPT ![roomId].users =
             MapSet(@, socketId, [MapGet(@, socketId) EXCEPT !.cursor = cursor])]
     ELSE got.rooms

updateUserCursor(rms, roomId, socketId, cursor) ==
  LET user == getUser(rms, roomId, socketId)
  IN IF user # <<>>
     THEN [rms EXCEPT ![roomId].users =
             MapSet(@, socketId, [user[1] EXCEPT !.cursor = cursor])]
     ELSE rms

getDrawingState(rms, roomId) ==
  LET got == getRoom(rms, roomId)
  IN [rooms |-> got.rooms, result |-> got.result.drawingState]

\* faulty variant: one DrawingState object shared by all rooms
withDrawingState_shared(rms, roomId, ds) ==
  [r \in DOMAIN rms |-> [rms[r] EXCEPT !.drawingState = ds]]

\* A DrawingState method changes the object it is called on, and that object
\* is the one the room roomId holds: the registry after the change.
withDrawingState(rms, roomId, ds) ==
  [rms EXCEPT ![roomId].drawingState = ds]

\* faulty variant: the callback deletes without looking at the roster again
deleteIfEmpty_noRecheck(rms, roomId) ==
  IF roomId \in DOMAIN rms
  THEN [r \in DOMAIN rms \ {roomId} |-> rms[r]]
  ELSE rms

\* body of the setTimeout callback armed by removeUserFromRoom
deleteIfEmpty(rms, roomId) ==
  IF roomId \in DOMAIN rms /\ Len(rms[roomId].users) = 0
  THEN [r \in DOMAIN rms \ {roomId} |-> rms[r]]
  ELSE rms

(***************************************************************************)
(* socket.io emits.  io.to(room) reaches every socket in the room,         *)
(* socket.to(room) every socket in the room but the sender, socket.emit    *)
(* the sender alone.                                                       *)
(***************************************************************************)
NoOut == [s \in Sessions |-> <<>>]
InRoom(io, room) == {s \in Sessions : room \in io[s]}
EmitTo(targets, msg) == [s \in Sessions |-> IF s \in targets THEN <<msg>> ELSE <<>>]
Both(o1, o2) == [s \in Sessions |-> o1[s] \o o2[s]]

(***************************************************************************)
(* The browser client of a connection: what its socket handlers paint.     *)
(* The canvas is the sequence of strokes painted since it was last wiped;  *)
(* a stroke is what drawStroke reads of an operation.  The points of a     *)
(* stroke reach the canvases while it is drawn (locally at its author, by  *)
(* relayed draw events at the others); the model paints the whole stroke   *)
(* when operation-added arrives.  Messages are handled in the order sent.  *)
(***************************************************************************)
\* CanvasDrawing.clearCanvas
clearCanvas == <<>>

\* CanvasDrawing.drawStroke on canvas c
drawStroke(c, strokeData) ==
  IF Len(strokeData.points) = 0
  THEN c
  ELSE Append(c, [tool |-> strokeData.tool, color |-> strokeData.color,
                  lineWidth |-> strokeData.lineWidth, points |-> strokeData.points])

\* What drawRealtimePoint (at the other clients) and the local drawing (at
\* the author) have put on canvas c by the time the stroke is committed: the
\* segments between its points, that is the stroke.
drawRealtimePoint(c, strokeData) == drawStroke(c, strokeData)

\* CanvasDrawing.redrawFromHistory
RECURSIVE redrawFromHistory(_)
redrawFromHistory(operations) ==
  IF operations = <<>>
  THEN clearCanvas
  ELSE LET n == Len(operations)
           c == redrawFromHistory(SubSeq(operations, 1, n - 1))
       IN IF operations[n].type = "stroke" THEN drawStroke(c, operations[n]) ELSE c

\* wsManager.drawingOperations is read by onUndo and assigned nowhere: it is
\* undefined, and `undefined?.slice(..) || []` is the empty array
drawingOperationsSlice(end) == <<>>

\* the socket handler of the client for message m, on canvas c
onMessage(c, m) ==
  CASE m.event = "room-joined" -> redrawFromHistory(m.drawingState.operations)
    \* onOperationAdded paints nothing ("we already drew it")
    [] m.event = "operation-added" -> drawRealtimePoint(c, m.data)
    [] m.event = "undo-operation" ->
         redrawFromHistory(IF m.operation.id >= 0
                           THEN drawingOperationsSlice(m.newIndex + 1)
                           ELSE <<>>)
    [] m.event = "redo-operation" ->
         IF m.operation.type = "stroke" THEN drawStroke(c, m.operation) ELSE c
    [] m.event = "canvas-cleared" -> clearCanvas
    [] OTHER -> c

RECURSIVE onMessages(_, _)
onMessages(c, q) ==
  IF q = <<>> THEN c ELSE onMessages(onMessage(c, Head(q)), Tail(q))

\* The clients are part of the model where the initial state has their
\* canvases (InitClient); elsewhere the server is modelled alone and canvas
\* stays NoClients.
NoClients == <<>>

\* every open client handles what the callback has emitted to it; the page
\* of a closed connection is gone
ClientStep ==
  /\ canvas' = IF canvas = NoClients
               THEN NoClients
               ELSE [s \in Sessions |->
                       IF sock'[s] = "open" THEN onMessages(canvas[s], out'[s])
                       ELSE clearCanvas]
  /\ UNCHANGED wsm

(***************************************************************************)
(* class WebSocketManager: the send methods of one client.  wsm holds the  *)
(* fields connected and lastCursorSend (Null = undefined), the reading now *)
(* of Date.now(), the messages emitted by the last call, and the readings  *)
(* at which the last two cursor-move messages were emitted.  Date.now()    *)
(* is positive and does not go back.                                       *)
(***************************************************************************)
ThrottleMs == 50
ClockStepMs == 25
ClockStart == ClockStepMs
ClockEnd == ClockStart + ClockSteps * ClockStepMs

\* constructor
NewWebSocketManager ==
  [connected |-> FALSE, lastCursorSend |-> Null, now |-> ClockStart,
   emitted |-> <<>>, cursorAt |-> Null, prevCursorAt |-> Null]

\* if (!this.connected) return; this.socket.emit(event, data)
emitIfConnected(this, event, data) ==
  [this EXCEPT !.emitted = IF this.connected
                           THEN << [event |-> event, data |-> data] >>
                           ELSE <<>>]

\* faulty variant: >= 50 in place of > 50
sendCursorMove_atLeast(this, cursor, later) ==
  IF ~this.connected
  THEN [this EXCEPT !.emitted = <<>>]
  ELSE IF \/ this.lastCursorSend = Null \/ this.lastCursorSend = 0
          \/ this.now - this.lastCursorSend >= ThrottleMs
       THEN [this EXCEPT !.emitted = << [event |-> "cursor-move", data |-> cursor] >>,
                         !.lastCursorSend = this.now + later,
                         !.now = this.now + later,
                         !.cursorAt = this.now,
                         !.prevCursorAt = this.cursorAt]
       ELSE [this EXCEPT !.emitted = <<>>]

\* sendCursorMove; the second Date.now() reads `later` ms after the first
sendCursorMove(this, cursor, later) ==
  IF ~this.connected
  THEN [this EXCEPT !.emitted = <<>>]
  ELSE IF \/ this.lastCursorSend = Null \/ this.lastCursorSend = 0
          \/ this.now - this.lastCursorSend > ThrottleMs
       THEN [this EXCEPT !.emitted = << [event |-> "cursor-move", data |-> cursor] >>,
                         !.lastCursorSend = this.now + later,
                         !.now = this.now + later,
                         !.cursorAt = this.now,
                         !.prevCursorAt = this.cursorAt]
       ELSE [this EXCEPT !.emitted = <<>>]

sendDraw(this, data) == emitIfConnected(this, "draw", data)
sendStrokeComplete(this, data) == emitIfConnected(this, "stroke-complete", data)
sendUndo(this) == emitIfConnected(this, "undo", <<>>)
sendRedo(this) == emitIfConnected(this, "redo", <<>>)
sendClear(this) == emitIfConnected(this, "clear-canvas", <<>>)

\* the server and the pages of the other clients take no step
ManagerStep ==
  UNCHANGED << rooms, sock, currentRoom, currentUser, ioRooms, timers, out,
               emptyAge, logAtEmpty, canvas >>

\* socket.on('connect')
OnConnect ==
  /\ ~wsm.connected
  /\ wsm' = [wsm EXCEPT !.connected = TRUE, !.emitted = <<>>]
  /\ ManagerStep

\* socket.on('disconnect')
OnDisconnect ==
  /\ wsm.connected
  /\ wsm' = [wsm EXCEPT !.connected = FALSE, !.emitted = <<>>]
  /\ ManagerStep

SendCursorMove(cursor, later) ==
  /\ wsm.now + later <= ClockEnd
  /\ wsm' = sendCursorMove(wsm, cursor, later)
  /\ ManagerStep

SendDraw(data) == wsm' = sendDraw(wsm, data) /\ ManagerStep
SendStrokeComplete(data) == wsm' = sendStrokeComplete(wsm, data) /\ ManagerStep
SendUndo == wsm' = sendUndo(wsm) /\ ManagerStep
SendRedo == wsm' = sendRedo(wsm) /\ ManagerStep
SendClear == wsm' = sendClear(wsm) /\ ManagerStep

\* time passes at the client
ClockTick ==
  /\ wsm.now + ClockStepMs <= ClockEnd
  /\ wsm' = [wsm EXCEPT !.now = @ + ClockStepMs, !.emitted = <<>>]
  /\ ManagerStep

(***************************************************************************)
(* Initial state: the server has started, no connection, no room.          *)
(***************************************************************************)
Init ==
  /\ rooms = NoRooms
  /\ sock = [s \in Sessions |-> "idle"]
  /\ currentRoom = [s \in Sessions |-> Null]
  /\ currentUser = [s \in Sessions |-> <<>>]
  /\ ioRooms = [s \in Sessions |-> {}]
  /\ timers = <<>>
  /\ out = NoOut
  /\ emptyAge = [r \in Rooms |-> Null]
  /\ logAtEmpty = [r \in Rooms |-> <<>>]
  /\ canvas = NoClients
  /\ wsm = NewWebSocketManager

\* the same, with a blank canvas in the page of every client to come
InitClient ==
  /\ rooms = NoRooms
  /\ sock = [s \in Sessions |-> "idle"]
  /\ currentRoom = [s \in Sessions |-> Null]
  /\ currentUser = [s \in Sessions |-> <<>>]
  /\ ioRooms = [s \in Sessions |-> {}]
  /\ timers = <<>>
  /\ out = NoOut
  /\ emptyAge = [r \in Rooms |-> Null]
  /\ logAtEmpty = [r \in Rooms |-> <<>>]
  /\ canvas = [s \in Sessions |-> clearCanvas]
  /\ wsm = NewWebSocketManager

(***************************************************************************)
(* io.on('connection'): a new socket with its closure variables.  Socket   *)
(* ids are unique; they are numbered in the order the sockets connect.     *)
(***************************************************************************)
Connect(s) ==
  /\ sock[s] = "idle"
  /\ \A t \in Sessions : t < s => sock[t] # "idle"
  /\ sock' = [sock EXCEPT ![s] = "open"]
  /\ currentRoom' = [currentRoom EXCEPT ![s] = Null]
  /\ currentUser' = [currentUser EXCEPT ![s] = <<>>]
  /\ out' = NoOut
  /\ UNCHANGED << rooms, ioRooms, timers, emptyAge, logAtEmpty >>
  /\ ClientStep

\* faulty variant of the join-room handler: the roster is read before the
\* joining user is added to it
JoinRoom_rosterBefore(s, roomId, username) ==
  /\ sock[s] = "open"
  /\ LET room == IF roomId # NoRoomId THEN roomId ELSE DefaultRoom
         io1 == [ioRooms EXCEPT ![s] = @ \cup {room}]
         added == addUserToRoom(rooms, room, s, username)
         got == getDrawingState(added.rooms, room)
         roomUsers == getRoomUsers(rooms, room)
         full == getFullState(got.result)
     IN /\ currentRoom' = [currentRoom EXCEPT ![s] = room]
        /\ ioRooms' = io1
        /\ currentUser' = [currentUser EXCEPT ![s] = << added.result >>]
        /\ rooms' = withDrawingState(got.rooms, room, full.ds)
        /\ out' = Both(EmitTo({s}, [event |-> "room-joined",
                                    user |-> added.result,
                                    users |-> roomUsers,
                                    drawingState |-> full.result]),
                       EmitTo(InRoom(io1, room) \ {s},
                                   [event |-> "user-joined",
                                    user |-> added.result,
                                    users |-> roomUsers]))
        /\ emptyAge' = [emptyAge EXCEPT ![room] = Null]
        /\ logAtEmpty' = [logAtEmpty EXCEPT ![room] = <<>>]
  /\ UNCHANGED << sock, timers >>
  /\ ClientStep

(***************************************************************************)
(* socket.on('join-room')                                                  *)
(***************************************************************************)
JoinRoom(s, roomId, username) ==
  /\ sock[s] = "open"
  /\ LET room == IF roomId # NoRoomId THEN roomId ELSE DefaultRoom
         io1 == [ioRooms EXCEPT ![s] = @ \cup {room}]
         added == addUserToRoom(rooms, room, s, username)
         got == getDrawingState(added.rooms, room)
         roomUsers == getRoomUsers(got.rooms, room)
         full == getFullState(got.result)
     IN /\ currentRoom' = [currentRoom EXCEPT ![s] = room]
        /\ ioRooms' = io1
        /\ currentUser' = [currentUser EXCEPT ![s] = << added.result >>]
        /\ rooms' = withDrawingState(got.rooms, room, full.ds)
        /\ out' = Both(EmitTo({s}, [event |-> "room-joined",
                                    user |-> added.result,
                                    users |-> roomUsers,
                                    drawingState |-> full.result]),
                       EmitTo(InRoom(io1, room) \ {s},
                                   [event |-> "user-joined",
                                    user |-> added.result,
                                    users |-> roomUsers]))
        /\ emptyAge' = [emptyAge EXCEPT ![room] = Null]
        /\ logAtEmpty' = [logAtEmpty EXCEPT ![room] = <<>>]
  /\ UNCHANGED << sock, timers >>
  /\ ClientStep

\* faulty variant of the stroke-complete handler: the broadcast id is the
\* length of the log before the call, not the id addOperation returns
StrokeComplete_lengthId(s, data, now, cap) ==
  /\ sock[s] = "open"
  /\ IF currentRoom[s] = Null
     THEN /\ out' = NoOut
          /\ UNCHANGED rooms
     ELSE LET room == currentRoom[s]
              got == getDrawingState(rooms, room)
              operation == [type |-> "stroke",
                            userId |-> s,
                            username |-> currentUser[s][1].username,
                            userColor |-> currentUser[s][1].color,
                            tool |-> data.tool,
                            color |-> data.color,
                            lineWidth |-> data.lineWidth,
                            points |-> data.points]
              added == addOperation(got.result, operation, now)
          IN /\ Len(added.ds.operations) <= cap
             /\ rooms' = withDrawingState(got.rooms, room, added.ds)
             /\ out' = EmitTo(InRoom(ioRooms, room),
                              [event |-> "operation-added",
                               data |-> [id |-> Len(got.result.operations)] @@ operation])
  /\ UNCHANGED << sock, currentRoom, currentUser, ioRooms, timers,
                  emptyAge, logAtEmpty >>
  /\ ClientStep

(***************************************************************************)
(* socket.on('stroke-complete').  cap bounds the length of the log.        *)
(***************************************************************************)
StrokeComplete(s, data, now, cap) ==
  /\ sock[s] = "open"
  /\ IF currentRoom[s] = Null
     THEN /\ out' = NoOut
          /\ UNCHANGED rooms
     ELSE LET room == currentRoom[s]
              got == getDrawingState(rooms, room)
              operation == [type |-> "stroke",
                            userId |-> s,
                            username |-> currentUser[s][1].username,
                            userColor |-> currentUser[s][1].color,
                            tool |-> data.tool,
                            color |-> data.color,
                            lineWidth |-> data.lineWidth,
                            points |-> data.points]
              added == addOperation(got.result, operation, now)
          IN /\ Len(added.ds.operations) <= cap
             /\ rooms' = withDrawingState(got.rooms, room, added.ds)
             /\ out' = EmitTo(InRoom(ioRooms, room),
                              [event |-> "operation-added",
                               data |-> [id |-> added.result] @@ operation])
  /\ UNCHANGED << sock, currentRoom, currentUser, ioRooms, timers,
                  emptyAge, logAtEmpty >>
  /\ ClientStep

\* faulty variant of the undo handler: socket.to(), which skips the sender
Undo_socketTo(s) ==
  /\ sock[s] = "open"
  /\ IF currentRoom[s] = Null
     THEN /\ out' = NoOut
          /\ UNCHANGED rooms
     ELSE LET room == currentRoom[s]
              got == getDrawingState(rooms, room)
              undone == undo(got.result)
          IN /\ rooms' = withDrawingState(got.rooms, room, undone.ds)
             /\ out' = IF undone.result # <<>>
                       THEN EmitTo(InRoom(ioRooms, room) \ {s},
                                   [event |-> "undo-operation",
                                    userId |-> s,
                                    username |-> currentUser[s][1].username,
                                    operation |-> undone.result[1].operation,
                                    newIndex |-> undone.result[1].newIndex])
                       ELSE NoOut
  /\ UNCHANGED << sock, currentRoom, currentUser, ioRooms, timers,
                  emptyAge, logAtEmpty >>
  /\ ClientStep

\* faulty variant of the undo handler: a session undoes its own operations only
Undo_ownOnly(s) ==
  /\ sock[s] = "open"
  /\ IF currentRoom[s] = Null
     THEN /\ out' = NoOut
          /\ UNCHANGED rooms
     ELSE LET room == currentRoom[s]
              got == getDrawingState(rooms, room)
              ds == got.result
              undone == IF /\ ds.currentIndex >= 0
                           /\ ds.operations[ds.currentIndex + 1].userId # s
                        THEN [ds |-> ds, result |-> <<>>]
                        ELSE undo(ds)
          IN /\ rooms' = withDrawingState(got.rooms, room, undone.ds)
             /\ out' = IF undone.result # <<>>
                       THEN EmitTo(InRoom(ioRooms, room),
                                   [event |-> "undo-operation",
                                    userId |-> s,
                                    username |-> currentUser[s][1].username,
                                    operation |-> undone.result[1].operation,
                                    newIndex |-> undone.result[1].newIndex])
                       ELSE NoOut
  /\ UNCHANGED << sock, currentRoom, currentUser, ioRooms, timers,
                  emptyAge, logAtEmpty >>
  /\ ClientStep

(***************************************************************************)
(* socket.on('undo')                                                       *)
(***************************************************************************)
Undo(s) ==
  /\ sock[s] = "open"
  /\ IF currentRoom[s] = Null
     THEN /\ out' = NoOut
          /\ UNCHANGED rooms
     ELSE LET room == currentRoom[s]
              got == getDrawingState(rooms, room)
              undone == undo(got.result)
          IN /\ rooms' = withDrawingState(got.rooms, room, undone.ds)
             /\ out' = IF undone.result # <<>>
                       THEN EmitTo(InRoom(ioRooms, room),
                                   [event |-> "undo-operation",
                                    userId |-> s,
                                    username |-> currentUser[s][1].username,
                                    operation |-> undone.result[1].operation,
                                    newIndex |-> undone.result[1].newIndex])
                       ELSE NoOut
  /\ UNCHANGED << sock, currentRoom, currentUser, ioRooms, timers,
                  emptyAge, logAtEmpty >>
  /\ ClientStep

\* faulty variant of the redo handler: it broadcasts without testing the result
Redo_emitAlways(s) ==
  /\ sock[s] = "open"
  /\ IF currentRoom[s] = Null
     THEN /\ out' = NoOut
          /\ UNCHANGED rooms
     ELSE LET room == currentRoom[s]
              got == getDrawingState(rooms, room)
              redone == redo(got.result)
          IN /\ rooms' = withDrawingState(got.rooms, room, redone.ds)
             /\ out' = IF redone.result # <<>>
                       THEN EmitTo(InRoom(ioRooms, room),
                                   [event |-> "redo-operation",
                                    userId |-> s,
                                    username |-> currentUser[s][1].username,
                                    operation |-> redone.result[1].operation,
                                    newIndex |-> redone.result[1].newIndex])
                       ELSE EmitTo(InRoom(ioRooms, room),
                                   [event |-> "redo-operation",
                                    userId |-> s,
                                    username |-> currentUser[s][1].username,
                                    operation |-> <<>>,
                                    newIndex |-> redone.ds.currentIndex])
  /\ UNCHANGED << sock, currentRoom, currentUser, ioRooms, timers,
                  emptyAge, logAtEmpty >>
  /\ ClientStep

(***************************************************************************)
(* socket.on('redo')                                                       *)
(***************************************************************************)
\* faulty variant of the redo handler: socket.to(), which skips the sender
Redo_socketTo(s) ==
  /\ sock[s] = "open"
  /\ IF currentRoom[s] = Null
     THEN /\ out' = NoOut
          /\ UNCHANGED rooms
     ELSE LET room == currentRoom[s]
              got == getDrawingState(rooms, room)
              redone == redo(got.result)
          IN /\ rooms' = withDrawingState(got.rooms, room, redone.ds)
             /\ out' = IF redone.result # <<>>
                       THEN EmitTo(InRoom(ioRooms, room) \ {s},
                                   [event |-> "redo-operation",
                                    userId |-> s,
                                    username |-> currentUser[s][1].username,
                                    operation |-> redone.result[1].operation,
                                    newIndex |-> redone.result[1].newIndex])
                       ELSE NoOut
  /\ UNCHANGED << sock, currentRoom, currentUser, ioRooms, timers,
                  emptyAge, logAtEmpty >>
  /\ ClientStep

Redo(s) ==
  /\ sock[s] = "open"
  /\ IF currentRoom[s] = Null
     THEN /\ out' = NoOut
          /\ UNCHANGED rooms
     ELSE LET room == currentRoom[s]
              got == getDrawingState(rooms, room)
              redone == redo(got.result)
          IN /\ rooms' = withDrawingState(got.rooms, room, redone.ds)
             /\ out' = IF redone.result # <<>>
                       THEN EmitTo(InRoom(ioRooms, room),
                                   [event |-> "redo-operation",
                                    userId |-> s,
                                    username |-> currentUser[s][1].username,
                                    operation |-> redone.result[1].operation,
                                    newIndex |-> redone.result[1].newIndex])
                       ELSE NoOut
  /\ UNCHANGED << sock, currentRoom, currentUser, ioRooms, timers,
                  emptyAge, logAtEmpty >>
  /\ ClientStep

\* faulty variant of the clear-canvas handler: no "if (!currentRoom) return",
\* the room 'default' stands in for a missing room
ClearCanvas_noGuard(s) ==
  /\ sock[s] = "open"
  /\ LET room == IF currentRoom[s] = Null THEN DefaultRoom ELSE currentRoom[s]
         got == getDrawingState(rooms, room)
         cleared == clear(got.result)
     IN /\ rooms' = withDrawingState(got.rooms, room, cleared.ds)
        /\ out' = EmitTo(InRoom(ioRooms, room),
                         [event |-> "canvas-cleared",
                          userId |-> s,
                          username |-> IF currentUser[s] = <<>> THEN NoName
                                       ELSE currentUser[s][1].username])
  /\ UNCHANGED << sock, currentRoom, currentUser, ioRooms, timers,
                  emptyAge, logAtEmpty >>
  /\ ClientStep

(***************************************************************************)
(* socket.on('clear-canvas')                                               *)
(***************************************************************************)
ClearCanvas(s) ==
  /\ sock[s] = "open"
  /\ IF currentRoom[s] = Null
     THEN /\ out' = NoOut
          /\ UNCHANGED rooms
     ELSE LET room == currentRoom[s]
              got == getDrawingState(rooms, room)
              cleared == clear(got.result)
          IN /\ rooms' = withDrawingState(got.rooms, room, cleared.ds)
             /\ out' = EmitTo(InRoom(ioRooms, room),
                              [event |-> "canvas-cleared",
                               userId |-> s,
                               username |-> currentUser[s][1].username])
  /\ UNCHANGED << sock, currentRoom, currentUser, ioRooms, timers,
                  emptyAge, logAtEmpty >>
  /\ ClientStep

\* faulty variant of the draw handler: io.to(), which includes the sender
Draw_ioTo(s, data) ==
  /\ sock[s] = "open"
  /\ out' = IF currentRoom[s] = Null
            THEN NoOut
            ELSE EmitTo(InRoom(ioRooms, currentRoom[s]),
                        [event |-> "draw",
                         data |-> [userId |-> s,
                                   username |-> currentUser[s][1].username,
                                   userColor |-> currentUser[s][1].color] @@ data])
  /\ UNCHANGED << rooms, sock, currentRoom, currentUser, ioRooms, timers,
                  emptyAge, logAtEmpty >>
  /\ ClientStep

(***************************************************************************)
(* socket.on('draw'): a live stroke point, relayed and not stored.         *)
(***************************************************************************)
Draw(s, data) ==
  /\ sock[s] = "open"
  /\ out' = IF currentRoom[s] = Null
            THEN NoOut
            ELSE EmitTo(InRoom(ioRooms, currentRoom[s]) \ {s},
                        [event |-> "draw",
                         data |-> [userId |-> s,
                                   username |-> currentUser[s][1].username,
                                   userColor |-> currentUser[s][1].color] @@ data])
  /\ UNCHANGED << rooms, sock, currentRoom, currentUser, ioRooms, timers,
                  emptyAge, logAtEmpty >>
  /\ ClientStep

(***************************************************************************)
(* socket.on('cursor-move').  currentUser is the user object that the      *)
(* roster of currentRoom holds for this socket, so the new cursor shows in *)
(* both.                                                                   *)
(***************************************************************************)
CursorMove(s, cursor) ==
  /\ sock[s] = "open"
  /\ IF currentRoom[s] = Null
     THEN /\ out' = NoOut
          /\ UNCHANGED << rooms, currentUser >>
     ELSE LET room == currentRoom[s]
          IN /\ rooms' = updateUserCursor(rooms, room, s, cursor)
             /\ currentUser' =
                  [currentUser EXCEPT ![s] =
                     IF getUser(rooms, room, s) # <<>>
                     THEN << [@[1] EXCEPT !.cursor = cursor] >>
                     ELSE @]
             /\ out' = EmitTo(InRoom(ioRooms, room) \ {s},
                              [event |-> "cursor-move",
                               userId |-> s,
                               username |-> currentUser[s][1].username,
                               cursor |-> cursor,
                               color |-> currentUser[s][1].color])
  /\ UNCHANGED << sock, currentRoom, ioRooms, timers, emptyAge, logAtEmpty >>
  /\ ClientStep

\* faulty variant of the disconnect handler: the roster is read before the
\* user is removed from it
Disconnect_rosterBefore(s) ==
  /\ sock[s] = "open"
  /\ sock' = [sock EXCEPT ![s] = "closed"]
  /\ ioRooms' = [ioRooms EXCEPT ![s] = {}]
  /\ IF currentRoom[s] # Null /\ currentUser[s] # <<>>
     THEN LET room == currentRoom[s]
              removed == removeUserFromRoom(rooms, timers, room, s)
              roomUsers == getRoomUsers(rooms, room)
              emptied == /\ room \in DOMAIN removed.rooms
                         /\ Len(removed.rooms[room].users) = 0
          IN /\ rooms' = removed.rooms
             /\ timers' = removed.timers
             /\ out' = EmitTo(InRoom(ioRooms', room) \ {s},
                              [event |-> "user-left",
                               userId |-> s,
                               username |-> currentUser[s][1].username,
                               users |-> roomUsers])
             /\ emptyAge' = IF emptied THEN [emptyAge EXCEPT ![room] = 0]
                            ELSE emptyAge
             /\ logAtEmpty' = IF emptied
                              THEN [logAtEmpty EXCEPT ![room] =
                                      << removed.rooms[room].drawingState >>]
                              ELSE logAtEmpty
     ELSE /\ out' = NoOut
          /\ UNCHANGED << rooms, timers, emptyAge, logAtEmpty >>
  /\ currentRoom' = [currentRoom EXCEPT ![s] = Null]
  /\ currentUser' = [currentUser EXCEPT ![s] = <<>>]
  /\ ClientStep

(***************************************************************************)
(* socket.on('disconnect').  The socket has left its socket.io rooms when  *)
(* the handler runs.  emptyAge and logAtEmpty record the moment the        *)
(* removal leaves the roster empty.  No handler of a closed socket runs    *)
(* again: its closure variables are garbage and are reset.                 *)
(***************************************************************************)
Disconnect(s) ==
  /\ sock[s] = "open"
  /\ sock' = [sock EXCEPT ![s] = "closed"]
  /\ ioRooms' = [ioRooms EXCEPT ![s] = {}]
  /\ IF currentRoom[s] # Null /\ currentUser[s] # <<>>
     THEN LET room == currentRoom[s]
              removed == removeUserFromRoom(rooms, timers, room, s)
              roomUsers == getRoomUsers(removed.rooms, room)
              emptied == /\ room \in DOMAIN removed.rooms
                         /\ Len(removed.rooms[room].users) = 0
          IN /\ rooms' = removed.rooms
             /\ timers' = removed.timers
             /\ out' = EmitTo(InRoom(ioRooms', room) \ {s},
                              [event |-> "user-left",
                               userId |-> s,
                               username |-> currentUser[s][1].username,
                               users |-> roomUsers])
             /\ emptyAge' = IF emptied THEN [emptyAge EXCEPT ![room] = 0]
                            ELSE emptyAge
             /\ logAtEmpty' = IF emptied
                              THEN [logAtEmpty EXCEPT ![room] =
                                      << removed.rooms[room].drawingState >>]
                              ELSE logAtEmpty
     ELSE /\ out' = NoOut
          /\ UNCHANGED << rooms, timers, emptyAge, logAtEmpty >>
  /\ currentRoom' = [currentRoom EXCEPT ![s] = Null]
  /\ currentUser' = [currentUser EXCEPT ![s] = <<>>]
  /\ ClientStep

(***************************************************************************)
(* The setTimeout callback of removeUserFromRoom runs once its delay has   *)
(* passed (possibly late).                                                 *)
(***************************************************************************)
TimerFire(i) ==
  /\ i \in 1..Len(timers)
  /\ timers[i].remaining = 0
  /\ rooms' = deleteIfEmpty(rooms, timers[i].roomId)
  /\ timers' = RemoveAt(timers, i)
  /\ out' = NoOut
  /\ UNCHANGED << sock, currentRoom, currentUser, ioRooms, emptyAge, logAtEmpty >>
  /\ ClientStep

(***************************************************************************)
(* TickMs of time pass.                                                    *)
(***************************************************************************)
Elapse(tms) ==
  [i \in 1..Len(tms) |->
     [tms[i] EXCEPT !.remaining = IF @ > TickMs THEN @ - TickMs ELSE 0]]

Tick ==
  /\ timers' = Elapse(timers)
  /\ emptyAge' = [r \in Rooms |-> IF emptyAge[r] = Null THEN Null
                                  ELSE Min(emptyAge[r] + TickMs, GraceMs)]
  /\ << timers', emptyAge' >> # << timers, emptyAge >>
  /\ logAtEmpty' = [r \in Rooms |-> IF emptyAge'[r] = GraceMs THEN <<>>
                                    ELSE logAtEmpty[r]]
  /\ out' = NoOut
  /\ UNCHANGED << rooms, sock, currentRoom, currentUser, ioRooms >>
  /\ ClientStep

(***************************************************************************)
(* The server with NumSessions clients that all use the room 'default'.    *)
(***************************************************************************)
Next ==
  \/ \E s \in 1..NumSessions : Connect(s)
  \/ \E s \in 1..NumSessions : JoinRoom(s, NoRoomId, UsernameInput(s))
  \/ \E s \in 1..NumSessions, data \in OneStroke, now \in Stamps :
        StrokeComplete(s, data, now, MaxOps)
  \/ \E s \in 1..NumSessions : Undo(s)
  \/ \E s \in 1..NumSessions : Redo(s)
  \/ \E s \in 1..NumSessions : ClearCanvas(s)
  \/ \E s \in 1..NumSessions : Disconnect(s)
  \/ \E i \in 1..Len(timers) : TimerFire(i)
  \/ Tick

Spec == Init /\ [][Next]_vars

(***************************************************************************)
(* Restrictions of the server to one kind of client behaviour.             *)
(*                                                                         *)
(* SpecDraw: DrawSessions clients join the room 'default' and draw; none   *)
(* leaves.                                                                 *)
(***************************************************************************)
NextDraw ==
  \/ \E s \in 1..DrawSessions : Connect(s)
  \/ \E s \in 1..DrawSessions : JoinRoom(s, NoRoomId, UsernameInput(s))
  \/ \E s \in 1..DrawSessions, data \in OneStroke, now \in Stamps :
        StrokeComplete(s, data, now, MaxOps)
  \/ \E s \in 1..DrawSessions : Undo(s)
  \/ \E s \in 1..DrawSessions : Redo(s)
  \/ \E s \in 1..DrawSessions : ClearCanvas(s)

SpecDraw == Init /\ [][NextDraw]_vars

(***************************************************************************)
(* SpecLeave: LeaveSessions clients join and leave the room 'default',     *)
(* time passes and the deletion timers run; nobody draws.                  *)
(***************************************************************************)
NextLeave ==
  \/ \E s \in 1..LeaveSessions : Connect(s)
  \/ \E s \in 1..LeaveSessions : JoinRoom(s, NoRoomId, UsernameInput(s))
  \/ \E s \in 1..LeaveSessions : Disconnect(s)
  \/ \E i \in 1..Len(timers) : TimerFire(i)
  \/ Tick

SpecLeave == Init /\ [][NextLeave]_vars

\* time does not stop, and a timer whose delay has passed is run
FairLeave ==
  /\ SpecLeave
  /\ WF_vars(Tick)
  /\ WF_vars(\E i \in 1..Len(timers) : TimerFire(i))

\* the same for the whole server
FairSpec ==
  /\ Spec
  /\ WF_vars(Tick)
  /\ WF_vars(\E i \in 1..Len(timers) : TimerFire(i))

(***************************************************************************)
(* SpecRooms: one client that names any of NumRooms rooms, joins one room  *)
(* after another and draws in them.                                        *)
(***************************************************************************)
NextRooms ==
  \/ Connect(1)
  \/ \E roomId \in RoomIdInputs : JoinRoom(1, roomId, UsernameInput(1))
  \/ \E data \in OneStroke, now \in Stamps :
        StrokeComplete(1, data, now, MaxOps)
  \/ Undo(1)
  \/ Redo(1)
  \/ ClearCanvas(1)
  \/ Disconnect(1)
  \/ \E i \in 1..Len(timers) : TimerFire(i)
  \/ Tick

SpecRooms == Init /\ [][NextRooms]_vars

(***************************************************************************)
(* SpecLog: one client drawing in the room 'default': every state of a     *)
(* DrawingState of up to LogMaxOps operations.                             *)
(***************************************************************************)
NextLog ==
  \/ Connect(1)
  \/ JoinRoom(1, NoRoomId, UsernameInput(1))
  \/ \E data \in StrokeInputs(LogWidths), now \in Stamps :
        StrokeComplete(1, data, now, LogMaxOps)
  \/ Undo(1)
  \/ Redo(1)
  \/ ClearCanvas(1)

SpecLog == Init /\ [][NextLog]_vars

(***************************************************************************)
(* SpecRelay: DrawSessions clients join the room 'default' once, draw,     *)
(* send live stroke points and move their cursors; none leaves.            *)
(***************************************************************************)
NextRelay ==
  \/ \E s \in 1..DrawSessions : Connect(s)
  \/ \E s \in 1..DrawSessions :
        currentRoom[s] = Null /\ JoinRoom(s, NoRoomId, UsernameInput(s))
  \/ \E s \in 1..DrawSessions, data \in OneStroke, now \in Stamps :
        StrokeComplete(s, data, now, MaxOps)
  \/ \E s \in 1..DrawSessions : Undo(s)
  \/ \E s \in 1..DrawSessions : Redo(s)
  \/ \E s \in 1..DrawSessions : ClearCanvas(s)
  \/ \E s \in 1..DrawSessions, data \in DrawInputs : Draw(s, data)
  \/ \E s \in 1..DrawSessions, cursor \in CursorInputs : CursorMove(s, cursor)

SpecRelay == Init /\ [][NextRelay]_vars

(***************************************************************************)
(* SpecUndo: DrawSessions clients join the room 'default' once, then draw, *)
(* undo and redo up to UndoMaxOps operations.                              *)
(***************************************************************************)
NextUndo ==
  \/ \E s \in 1..DrawSessions : Connect(s)
  \/ \E s \in 1..DrawSessions :
        currentRoom[s] = Null /\ JoinRoom(s, NoRoomId, UsernameInput(s))
  \/ \E s \in 1..DrawSessions, data \in OneStroke, now \in Stamps :
        StrokeComplete(s, data, now, UndoMaxOps)
  \/ \E s \in 1..DrawSessions : Undo(s)
  \/ \E s \in 1..DrawSessions : Redo(s)

SpecUndo == Init /\ [][NextUndo]_vars

(***************************************************************************)
(* SpecClient: the clients of SpecUndo with their canvases.                *)
(***************************************************************************)
SpecClient == InitClient /\ [][NextUndo]_vars

(***************************************************************************)
(* SpecMove: DrawSessions clients that name any of NumRooms rooms, join one *)
(* room after another and draw; none leaves.                               *)
(***************************************************************************)
NextMove ==
  \/ \E s \in 1..DrawSessions : Connect(s)
  \/ \E s \in 1..DrawSessions, roomId \in RoomIdInputs :
        JoinRoom(s, roomId, UsernameInput(s))
  \/ \E s \in 1..DrawSessions, data \in OneStroke, now \in Stamps :
        StrokeComplete(s, data, now, MaxOps)

SpecMove == Init /\ [][NextMove]_vars

(***************************************************************************)
(* SpecReplica: the clients of SpecUndo, who also clear the canvas.        *)
(***************************************************************************)
NextReplica ==
  \/ \E s \in 1..DrawSessions : Connect(s)
  \/ \E s \in 1..DrawSessions :
        currentRoom[s] = Null /\ JoinRoom(s, NoRoomId, UsernameInput(s))
  \/ \E s \in 1..DrawSessions, data \in OneStroke, now \in Stamps :
        StrokeComplete(s, data, now, UndoMaxOps)
  \/ \E s \in 1..DrawSessions : Undo(s)
  \/ \E s \in 1..DrawSessions : Redo(s)
  \/ \E s \in 1..DrawSessions : ClearCanvas(s)

SpecReplica == Init /\ [][NextReplica]_vars

(***************************************************************************)
(* SpecFrame: one client that moves between the room 'default' and the    *)
(* room 1, draws, undoes, moves its cursor and leaves.                     *)
(***************************************************************************)
NextFrame ==
  \/ Connect(1)
  \/ \E roomId \in {NoRoomId, 1} : JoinRoom(1, roomId, UsernameInput(1))
  \/ \E data \in OneStroke, now \in Stamps :
        StrokeComplete(1, data, now, MaxOps)
  \/ Undo(1)
  \/ Redo(1)
  \/ ClearCanvas(1)
  \/ \E cursor \in CursorInputs : CursorMove(1, cursor)
  \/ Disconnect(1)
  \/ \E i \in 1..Len(timers) : TimerFire(i)
  \/ Tick

SpecFrame == Init /\ [][NextFrame]_vars

(***************************************************************************)
(* SpecSend: one WebSocketManager whose connection comes and goes while    *)
(* the page calls its send methods at any time.                            *)
(***************************************************************************)
NextSend ==
  \/ OnConnect
  \/ OnDisconnect
  \/ \E cursor \in CursorInputs, later \in {0, ClockStepMs} :
        SendCursorMove(cursor, later)
  \/ \E data \in DrawInputs : SendDraw(data)
  \/ \E data \in OneStroke : SendStrokeComplete(data)
  \/ SendUndo
  \/ SendRedo
  \/ SendClear
  \/ ClockTick

SpecSend == Init /\ [][NextSend]_vars

(***************************************************************************)
(* SpecPart: DrawSessions clients join the room 'default', draw and        *)
(* disconnect.                                                             *)
(***************************************************************************)
NextPart ==
  \/ \E s \in 1..DrawSessions : Connect(s)
  \/ \E s \in 1..DrawSessions : JoinRoom(s, NoRoomId, UsernameInput(s))
  \/ \E s \in 1..DrawSessions, data \in OneStroke, now \in Stamps :
        StrokeComplete(s, data, now, MaxOps)
  \/ \E s \in 1..DrawSessions : Disconnect(s)

SpecPart == Init /\ [][NextPart]_vars

(***************************************************************************)
(* Properties of the operation log.                                        *)
(***************************************************************************)
Logs == { rooms[r].drawingState : r \in DOMAIN rooms }

\* operations[0..i] of JavaScript, the first i+1 operations
Prefix(ops, i) == [k \in 1..(i + 1) |-> ops[k]]

\* an operation object as a stroke-complete handler builds it
OperationInputs ==
  { [type |-> "stroke", userId |-> 1, username |-> "User1",
     userColor |-> userColors[1], tool |-> d.tool, color |-> d.color,
     lineWidth |-> d.lineWidth, points |-> d.points] : d \in StrokeInputs(LogWidths) }

\* C1: in every log, -1 <= currentIndex <= operations.length - 1, after any
\* sequence of addOperation, undo, redo, clear and getFullState calls.
C1_IndexBounds ==
  \A ds \in Logs :
     /\ -1 <= ds.currentIndex
     /\ ds.currentIndex <= Len(ds.operations) - 1

\* a full log with every operation undone
C1_Witness ==
  \E ds \in Logs : Len(ds.operations) = LogMaxOps /\ ds.currentIndex = -1

\* C2: addOperation on a log with currentIndex < operations.length - 1 leaves
\* the active prefix operations[0..currentIndex] followed by the new
\* operation, currentIndex at the new operation; nothing is left to redo and
\* the snapshot is the whole log, so the discarded operations are gone.
C2_AddTruncatesFuture ==
  \A ds \in Logs :
     ds.currentIndex < Len(ds.operations) - 1 =>
       \A operation \in OperationInputs, now \in Stamps :
          LET added == addOperation(ds, operation, now)
              stored == [id |-> ds.currentIndex + 1, timestamp |-> now] @@ operation
          IN /\ added.ds.operations =
                  Append(Prefix(ds.operations, ds.currentIndex), stored)
             /\ added.ds.currentIndex = ds.currentIndex + 1
             /\ added.ds.currentIndex = Len(added.ds.operations) - 1
             /\ added.result = ds.currentIndex + 1
             /\ redo(added.ds).result = <<>>
             /\ getFullState(added.ds).result.operations =
                  Append(Prefix(ds.operations, ds.currentIndex), stored)

\* the log [A,B,C] after undo, undo: add(D) must give [A,D]
C2_Witness ==
  \E ds \in Logs : Len(ds.operations) = 3 /\ ds.currentIndex = 0

\* C3, as stated: for any log state, undo() then redo() restores
\* currentIndex, returns the same operation twice and leaves operations.
C3_RoundTripAnyState ==
  \A ds \in Logs :
     LET undone == undo(ds)
         redone == redo(undone.ds)
     IN /\ redone.ds.currentIndex = ds.currentIndex
        /\ redone.result = <<>> <=> undone.result = <<>>
        /\ redone.result # <<>> /\ undone.result # <<>> =>
             redone.result[1].operation = undone.result[1].operation
        /\ redone.ds.operations = ds.operations

\* C3, amended: for any log state with currentIndex >= 0 or with no
\* operations, undo() then redo() restores currentIndex, returns the same
\* operation twice (none twice on the empty log) and leaves operations.
C3_RoundTrip ==
  \A ds \in Logs :
     ds.currentIndex >= 0 \/ ds.operations = <<>> =>
       LET undone == undo(ds)
           redone == redo(undone.ds)
       IN /\ redone.ds.currentIndex = ds.currentIndex
          /\ redone.result = <<>> <=> undone.result = <<>>
          /\ ds.currentIndex >= 0 =>
               /\ undone.result # <<>> /\ redone.result # <<>>
               /\ undone.result[1].operation = ds.operations[ds.currentIndex + 1]
               /\ redone.result[1].operation = undone.result[1].operation
          /\ redone.ds.operations = ds.operations

\* a log whose undo succeeds, with an operation above currentIndex
C3_Witness ==
  \E ds \in Logs : ds.currentIndex = 1 /\ Len(ds.operations) = 3

\* C4: getFullState returns exactly operations[0..currentIndex], in order,
\* with currentIndex; nothing when currentIndex = -1; the log is unchanged.
\* The snapshot a joining client is sent is that of its room's log.
C4_Snapshot ==
  /\ \A ds \in Logs :
        LET full == getFullState(ds)
        IN /\ full.result.operations = Prefix(ds.operations, ds.currentIndex)
           /\ full.result.currentIndex = ds.currentIndex
           /\ ds.currentIndex = -1 => full.result.operations = <<>>
           /\ full.ds = ds
  /\ \A s \in Sessions :
        \A k \in 1..Len(out[s]) :
           out[s][k].event = "room-joined" =>
             LET ds == rooms[currentRoom[s]].drawingState
             IN /\ out[s][k].drawingState.operations =
                     Prefix(ds.operations, ds.currentIndex)
                /\ out[s][k].drawingState.currentIndex = ds.currentIndex

\* a client has just been sent the snapshot of a log with an undone operation
C4_Witness ==
  \E s \in Sessions :
     /\ out[s] # <<>>
     /\ out[s][1].event = "room-joined"
     /\ Len(out[s][1].drawingState.operations) = 2
     /\ Len(rooms[currentRoom[s]].drawingState.operations) = 3

(***************************************************************************)
(* Properties of rooms, broadcasts and room deletion.                      *)
(***************************************************************************)
\* the log of a room id: <<log>>, or <<>> when no such room exists
LogOf(rms, r) == IF r \in DOMAIN rms THEN << rms[r].drawingState >> ELSE <<>>

\* a stroke-complete, undo, redo or clear-canvas event of socket s is handled
LogEventBy(s) ==
  \/ \E data \in OneStroke, now \in Stamps : StrokeComplete(s, data, now, MaxOps)
  \/ Undo(s)
  \/ Redo(s)
  \/ ClearCanvas(s)

\* C5: a stroke-complete, undo, redo or clear-canvas event handled for a
\* session whose room is A never changes the operations or currentIndex of
\* another room B (nor creates or deletes B), and every room holds its own
\* log; so an operation added to A never appears in B's snapshot.
C5_RoomIsolation ==
  /\ [][ \A s \in Sessions :
           LogEventBy(s) =>
             \A b \in Rooms \ {currentRoom[s]} : LogOf(rooms', b) = LogOf(rooms, b)
       ]_vars
  /\ [](\A r \in DOMAIN rooms : rooms[r].drawingState.roomId = r)

\* the client has just added an operation in one room while another room,
\* which it joined before, exists with an empty log
C5_Witness ==
  /\ out[1] # <<>>
  /\ out[1][1].event = "operation-added"
  /\ \E a, b \in DOMAIN rooms :
        /\ a = currentRoom[1]
        /\ b # a
        /\ Len(rooms[a].drawingState.operations) = 1
        /\ rooms[b].drawingState.operations = <<>>

LogEvents == {"operation-added", "undo-operation", "redo-operation", "canvas-cleared"}
LogMsgs(q) == SelectSeq(q, LAMBDA m : m.event \in LogEvents)

\* the sockets that socket.io holds in room r
Members(io, r) == {s \in Sessions : r \in io[s]}

\* what a broadcast says about the log ds it was emitted for
Announces(m, ds) ==
  CASE m.event = "operation-added" ->
         /\ ds.currentIndex = m.data.id
         /\ Len(ds.operations) = m.data.id + 1
         /\ [f \in DOMAIN m.data |-> ds.operations[m.data.id + 1][f]] = m.data
    [] m.event = "undo-operation" ->
         /\ ds.currentIndex = m.newIndex
         /\ ds.operations[m.newIndex + 2] = m.operation
    [] m.event = "redo-operation" ->
         /\ ds.currentIndex = m.newIndex
         /\ ds.operations[m.newIndex + 1] = m.operation
    [] m.event = "canvas-cleared" ->
         /\ ds.operations = <<>>
         /\ ds.currentIndex = -1

\* C6: the log-changing events of a room are applied one at a time, in the
\* order the server handles them: one callback emits at most one log
\* broadcast, the same one to every member of the room and to nobody else,
\* it describes the log as the event left it, and the log never changes
\* without it.  Every member's stream therefore carries the broadcasts in
\* the order of application.
C6_BroadcastOrder ==
  /\ [](\A r \in DOMAIN rooms :
          /\ \A s \in Members(ioRooms, r), t \in Members(ioRooms, r) :
                /\ LogMsgs(out[s]) = LogMsgs(out[t])
                /\ Len(LogMsgs(out[s])) <= 1
                /\ \A k \in 1..Len(LogMsgs(out[s])) :
                      Announces(LogMsgs(out[s])[k], rooms[r].drawingState)
          /\ \A s \in Sessions \ Members(ioRooms, r) : LogMsgs(out[s]) = <<>>)
  /\ [][ \A r \in DOMAIN rooms :
           LogOf(rooms', r) # LogOf(rooms, r) =>
             \A s \in Members(ioRooms', r) : Len(LogMsgs(out'[s])) = 1
       ]_vars

\* two members have just received the same undo-operation broadcast
C6_Witness ==
  \E s \in Sessions, t \in Sessions :
     /\ s # t
     /\ out[s] # <<>>
     /\ out[s][1].event = "undo-operation"
     /\ out[t] = out[s]

\* C7, as stated: when the last session is removed from a room and a session
\* is added to the same room id before the 5 minutes have passed, the log
\* after the re-join is the log as it was at the removal.
C7_EmptyRoomSurvival ==
  [][ \A r \in Rooms :
        (emptyAge[r] # Null /\ emptyAge[r] < GraceMs /\ emptyAge'[r] = Null) =>
          /\ logAtEmpty[r] # <<>>
          /\ LogOf(rooms', r) = logAtEmpty[r]
    ]_vars

\* C8, as stated: a room is deleted only when its roster has been empty for
\* the full 5 minutes without interruption.
C8_DeletedOnlyAfterGrace ==
  [][ \A r \in DOMAIN rooms :
        r \notin DOMAIN rooms' => emptyAge[r] = GraceMs
    ]_vars

\* C9: when a deletion timer runs, its room is deleted if and only if it
\* exists and its roster is empty at that moment, and nothing else changes;
\* no step deletes a room that has a session in its roster.
C9_FireRechecks ==
  /\ [][ \A i \in 1..Len(timers) :
           TimerFire(i) =>
             LET r == timers[i].roomId
                 empty == r \in DOMAIN rooms /\ Len(rooms[r].users) = 0
             IN /\ (r \in DOMAIN rooms /\ r \notin DOMAIN rooms') <=> empty
                /\ ~empty => rooms' = rooms
                /\ \A q \in DOMAIN rooms \ {r} :
                      q \in DOMAIN rooms' /\ rooms'[q] = rooms[q]
       ]_vars
  /\ [][ \A r \in DOMAIN rooms :
           Len(rooms[r].users) > 0 => r \in DOMAIN rooms'
       ]_vars

\* a timer is due for a room that a session has joined again
C9_Witness ==
  \E i \in 1..Len(timers) :
     /\ timers[i].remaining = 0
     /\ timers[i].roomId \in DOMAIN rooms
     /\ Len(rooms[timers[i].roomId].users) > 0

\* C10: a room whose roster is empty is eventually removed from the
\* registry, unless a session joins it, given that timers eventually run.
C10_EmptyRoomReclaimed ==
  \A r \in Rooms :
     (r \in DOMAIN rooms /\ Len(rooms[r].users) = 0)
       ~> (r \notin DOMAIN rooms \/ Len(rooms[r].users) > 0)

\* the room 'default' was emptied, the 5 minutes passed and it is gone
C10_Witness ==
  /\ emptyAge[DefaultRoom] = GraceMs
  /\ DefaultRoom \notin DOMAIN rooms

(***************************************************************************)
(* Properties of the connection handlers.                                  *)
(***************************************************************************)
\* a draw, stroke-complete, cursor-move, undo, redo or clear-canvas event of
\* socket s is handled
DrawingEventBy(s) ==
  \/ \E data \in DrawInputs : Draw(s, data)
  \/ \E data \in OneStroke, now \in Stamps : StrokeComplete(s, data, now, MaxOps)
  \/ \E cursor \in CursorInputs : CursorMove(s, cursor)
  \/ Undo(s)
  \/ Redo(s)
  \/ ClearCanvas(s)

\* C11: while a connection has processed no join-room (currentRoom is null),
\* every draw, stroke-complete, cursor-move, undo, redo and clear-canvas
\* event it sends is dropped: the registry (rooms, rosters, logs) is
\* unchanged, no room is created, and nothing is emitted to any session.
C11_UnjoinedDropped ==
  [][ \A s \in Sessions :
        (sock[s] = "open" /\ currentRoom[s] = Null /\ DrawingEventBy(s)) =>
          /\ rooms' = rooms
          /\ out' = NoOut
          /\ UNCHANGED << currentRoom, currentUser, ioRooms, timers >>
    ]_vars

\* a connection that has not joined is open next to a member of the room
\* 'default' that has just received a broadcast for a non-empty log: the
\* dropped event is the step that leaves the registry alone and emits nothing
C11_Witness ==
  \E s \in Sessions, t \in Sessions :
     /\ sock[s] = "open"
     /\ currentRoom[s] = Null
     /\ currentRoom[t] = DefaultRoom
     /\ rooms[DefaultRoom].drawingState.operations # <<>>
     /\ out[t] # <<>>
     /\ out[s] = <<>>

\* the rosters of the registry: room id -> user ids in the roster
Rosters(rms) == [r \in DOMAIN rms |-> [i \in 1..Len(rms[r].users) |-> rms[r].users[i].id]]

JoinMsgs(q) == SelectSeq(q, LAMBDA m : m.event \in {"room-joined", "user-joined"})

\* C12, as stated: a join-room event from a connection that has already
\* joined changes no roster, leaves the connection's current room as it is
\* and emits neither room-joined nor user-joined.
C12_JoinOnlyWhenUnjoined ==
  [][ \A s \in Sessions :
        (/\ currentRoom[s] # Null
         /\ \E roomId \in RoomIdInputs : JoinRoom(s, roomId, UsernameInput(s))) =>
          /\ Rosters(rooms') = Rosters(rooms)
          /\ currentRoom' = currentRoom
          /\ \A t \in Sessions : JoinMsgs(out'[t]) = <<>>
    ]_vars

\* C13, as stated: each session id is in the roster of at most one room.
C13_OneRoomPerSession ==
  \A s \in Sessions :
     Cardinality({r \in DOMAIN rooms : MapHas(rooms[r].users, s)}) <= 1

\* C14: on join-room the joining session alone receives room-joined with
\* its own user record, the full roster of the room (itself included) and
\* the snapshot of the room's active history at that moment; every other
\* session in the room, and not the joiner, receives user-joined with the
\* joined user and the same roster; nobody else receives anything and the
\* log is not changed by the join.
C14_JoinReplies ==
  [][ \A s \in Sessions :
        JoinRoom(s, NoRoomId, UsernameInput(s)) =>
          LET r == currentRoom'[s]
              roster == rooms'[r].users
              ds == rooms'[r].drawingState
              self == MapGet(roster, s)
          IN /\ MapHas(roster, s)
             /\ self.id = s
             /\ out'[s] = << [event |-> "room-joined",
                              user |-> self,
                              users |-> roster,
                              drawingState |->
                                [operations |-> Prefix(ds.operations, ds.currentIndex),
                                 currentIndex |-> ds.currentIndex]] >>
             /\ \A t \in Sessions \ {s} :
                   out'[t] = IF t \in Members(ioRooms', r)
                             THEN << [event |-> "user-joined",
                                      user |-> self,
                                      users |-> roster] >>
                             ELSE <<>>
             /\ r \in DOMAIN rooms => ds = rooms[r].drawingState
    ]_vars

\* a session has just joined a room that another session is in and that has
\* an operation in its log: one holds room-joined, the other user-joined
C14_Witness ==
  \E s \in Sessions, t \in Sessions :
     /\ s # t
     /\ Len(out[s]) = 1
     /\ out[s][1].event = "room-joined"
     /\ Len(out[s][1].users) = 2
     /\ Len(out[s][1].drawingState.operations) = 1
     /\ Len(out[t]) = 1
     /\ out[t][1].event = "user-joined"
     /\ out[t][1].user.id = s

\* C15: a stroke-complete event from a joined session appends exactly one
\* operation, authored by that session, to the log of its room (after the
\* active prefix) and emits exactly one operation-added, carrying the
\* operation and the id addOperation returned, to every session of the room,
\* the sender included, and to nobody else.
C15_StrokeAppendsAndBroadcasts ==
  [][ \A s \in Sessions, data \in OneStroke, now \in Stamps :
        (currentRoom[s] # Null /\ StrokeComplete(s, data, now, MaxOps)) =>
          LET r == currentRoom[s]
              old == rooms[r].drawingState
              new == rooms'[r].drawingState
              stored == new.operations[Len(new.operations)]
              msg == [event |-> "operation-added",
                      data |-> [f \in DOMAIN stored \ {"timestamp"} |-> stored[f]]]
          IN /\ new.operations = Append(Prefix(old.operations, old.currentIndex), stored)
             /\ new.currentIndex = old.currentIndex + 1
             /\ stored.id = Len(new.operations) - 1
             /\ stored.userId = s
             /\ stored.tool = data.tool /\ stored.points = data.points
             /\ \A t \in Sessions :
                   out'[t] = IF t \in Members(ioRooms, r) THEN << msg >> ELSE <<>>
             /\ s \in Members(ioRooms, r)
    ]_vars

\* a session has just added the operation with id 0, and it and another
\* member both hold the operation-added broadcast
C15_Witness ==
  \E s \in Sessions, t \in Sessions :
     /\ s # t
     /\ Len(out[s]) = 1
     /\ out[s][1].event = "operation-added"
     /\ out[s][1].data.userId = s
     /\ out[s][1].data.id = 0
     /\ out[t] = out[s]
     /\ rooms[currentRoom[s]].drawingState.currentIndex = 0

\* the same single message of the given event, sent by s, is held by every
\* socket of room r and by nobody else
BroadcastOnce(o, io, r, s, event) ==
  /\ s \in Members(io, r)
  /\ Len(o[s]) = 1
  /\ o[s][1].event = event
  /\ o[s][1].userId = s
  /\ \A t \in Sessions : o[t] = IF t \in Members(io, r) THEN o[s] ELSE <<>>

\* C16: an undo request when currentIndex < 0, and a redo request when
\* currentIndex >= operations.length - 1, leave the registry unchanged and
\* emit nothing to any session; every other undo / redo request emits
\* exactly one undo-operation / redo-operation to every session of the room,
\* the sender included.
C16_UndoRedoNoOp ==
  [][ \A s \in Sessions :
        currentRoom[s] # Null =>
          LET r == currentRoom[s]
              ds == rooms[r].drawingState
          IN /\ Undo(s) =>
                  IF ds.currentIndex < 0
                  THEN rooms' = rooms /\ out' = NoOut
                  ELSE BroadcastOnce(out', ioRooms, r, s, "undo-operation")
             /\ Redo(s) =>
                  IF ds.currentIndex >= Len(ds.operations) - 1
                  THEN rooms' = rooms /\ out' = NoOut
                  ELSE BroadcastOnce(out', ioRooms, r, s, "redo-operation")
    ]_vars

\* two members hold the redo-operation broadcast of a redo that brought
\* currentIndex to the last operation: one more redo has nothing to redo
C16_Witness ==
  \E s \in Sessions, t \in Sessions :
     /\ s # t
     /\ currentRoom[s] # Null
     /\ BroadcastOnce(out, ioRooms, currentRoom[s], s, "redo-operation")
     /\ t \in Members(ioRooms, currentRoom[s])
     /\ LET ds == rooms[currentRoom[s]].drawingState
        IN ds.currentIndex = Len(ds.operations) - 1

\* C17: undo is global to the room.  An undo request of any joined session
\* undoes the most recent active operation of the log, whoever authored it:
\* the undo-operation broadcast carries that operation and newIndex, the
\* currentIndex of the log after the undo; a redo request likewise returns
\* the operation after currentIndex and the currentIndex after the redo.
C17_UndoIsGlobal ==
  [][ \A s \in Sessions :
        currentRoom[s] # Null =>
          LET r == currentRoom[s]
              old == rooms[r].drawingState
              new == rooms'[r].drawingState
          IN /\ (Undo(s) /\ old.currentIndex >= 0) =>
                  /\ new = [old EXCEPT !.currentIndex = old.currentIndex - 1]
                  /\ \A t \in Members(ioRooms, r) :
                        out'[t] = << [event |-> "undo-operation",
                                      userId |-> s,
                                      username |-> currentUser[s][1].username,
                                      operation |-> old.operations[old.currentIndex + 1],
                                      newIndex |-> new.currentIndex] >>
             /\ (Redo(s) /\ old.currentIndex < Len(old.operations) - 1) =>
                  /\ new = [old EXCEPT !.currentIndex = old.currentIndex + 1]
                  /\ \A t \in Members(ioRooms, r) :
                        out'[t] = << [event |-> "redo-operation",
                                      userId |-> s,
                                      username |-> currentUser[s][1].username,
                                      operation |-> old.operations[old.currentIndex + 2],
                                      newIndex |-> new.currentIndex] >>
    ]_vars

\* session 1 has just undone op1, which session 2 authored: both hold
\* undo-operation with that operation and newIndex 0
C17_Witness ==
  /\ Len(out[1]) = 1
  /\ out[1][1].event = "undo-operation"
  /\ out[1][1].userId = 1
  /\ out[1][1].operation.userId = 2
  /\ out[1][1].operation.id = 1
  /\ out[1][1].newIndex = 0
  /\ out[2] = out[1]

\* C18: clear-canvas from a joined session leaves the log of its room with
\* operations = [] and currentIndex = -1 and emits canvas-cleared to every
\* session of the room, the sender included.  The clear cannot be undone:
\* on an empty log undo and redo return none, undo and redo requests change
\* and emit nothing, and the log stays empty until a stroke-complete adds
\* one new operation; no operation stored before the clear is in the log.
C18_ClearIsFinal ==
  /\ [][ \A s \in Sessions :
           (currentRoom[s] # Null /\ ClearCanvas(s)) =>
             LET r == currentRoom[s]
             IN /\ rooms'[r].drawingState.operations = <<>>
                /\ rooms'[r].drawingState.currentIndex = -1
                /\ BroadcastOnce(out', ioRooms, r, s, "canvas-cleared")
       ]_vars
  /\ [](\A r \in DOMAIN rooms :
          rooms[r].drawingState.operations = <<>> =>
            /\ undo(rooms[r].drawingState).result = <<>>
            /\ redo(rooms[r].drawingState).result = <<>>)
  /\ [][ \A s \in Sessions :
           (/\ currentRoom[s] # Null
            /\ rooms[currentRoom[s]].drawingState.operations = <<>>
            /\ (Undo(s) \/ Redo(s))) =>
             rooms' = rooms /\ out' = NoOut
       ]_vars
  /\ [][ \A r \in DOMAIN rooms :
           (/\ rooms[r].drawingState.operations = <<>>
            /\ r \in DOMAIN rooms'
            /\ rooms'[r].drawingState.operations # <<>>) =>
             /\ Len(rooms'[r].drawingState.operations) = 1
             /\ \E s \in Members(ioRooms, r) :
                   /\ Len(out'[s]) = 1
                   /\ out'[s][1].event = "operation-added"
                   /\ out'[s][1].data.userId = s
       ]_vars

\* two members hold the canvas-cleared broadcast of a clear and the log of
\* their room is empty
C18_Witness ==
  \E s \in Sessions, t \in Sessions :
     /\ s # t
     /\ currentRoom[s] # Null
     /\ BroadcastOnce(out, ioRooms, currentRoom[s], s, "canvas-cleared")
     /\ t \in Members(ioRooms, currentRoom[s])
     /\ rooms[currentRoom[s]].drawingState.operations = <<>>
     /\ rooms[currentRoom[s]].drawingState.currentIndex = -1

\* C19: a draw event from a joined session is relayed, with the sender's id
\* added and its fields as sent, to every other session of the room and not
\* to the sender (nor to anybody else), and it changes nothing in the
\* registry: no log's operations or currentIndex change.
C19_DrawRelayed ==
  [][ \A s \in Sessions, data \in DrawInputs :
        (currentRoom[s] # Null /\ Draw(s, data)) =>
          LET r == currentRoom[s]
          IN /\ rooms' = rooms
             /\ out'[s] = <<>>
             /\ \A t \in Sessions \ {s} :
                   IF t \in Members(ioRooms, r)
                   THEN /\ Len(out'[t]) = 1
                        /\ out'[t][1].event = "draw"
                        /\ out'[t][1].data.userId = s
                        /\ \A f \in DOMAIN data : out'[t][1].data[f] = data[f]
                   ELSE out'[t] = <<>>
    ]_vars

\* a member holds the draw event of another member, who holds nothing,
\* while the log of their room has an operation
C19_Witness ==
  \E s \in Sessions, t \in Sessions :
     /\ s # t
     /\ currentRoom[s] # Null
     /\ t \in Members(ioRooms, currentRoom[s])
     /\ Len(out[t]) = 1
     /\ out[t][1].event = "draw"
     /\ out[t][1].data.userId = s
     /\ out[s] = <<>>
     /\ rooms[currentRoom[s]].drawingState.operations # <<>>

\* C20: when a joined connection disconnects, in that same step its session
\* is removed from the roster of its room and every remaining session of
\* the room receives user-left with the roster after the removal, which
\* does not contain the departed session; the log of the room is unchanged.
\* A disconnect of a connection that has not joined changes nothing in the
\* registry, arms no timer and emits nothing.
C20_DisconnectLeaves ==
  [][ \A s \in Sessions :
        Disconnect(s) =>
          IF currentRoom[s] # Null
          THEN LET r == currentRoom[s]
                   roster == rooms'[r].users
               IN /\ r \in DOMAIN rooms'
                  /\ ~MapHas(roster, s)
                  /\ roster = MapDelete(rooms[r].users, s)
                  /\ rooms'[r].drawingState = rooms[r].drawingState
                  /\ \A t \in Sessions :
                        out'[t] = IF t \in Members(ioRooms', r)
                                  THEN << [event |-> "user-left",
                                           userId |-> s,
                                           username |-> currentUser[s][1].username,
                                           users |-> roster] >>
                                  ELSE <<>>
                  /\ s \notin Members(ioRooms', r)
                  /\ Members(ioRooms', r) = Members(ioRooms, r) \ {s}
          ELSE /\ rooms' = rooms
               /\ timers' = timers
               /\ out' = NoOut
    ]_vars

\* a session has left a room with an operation in its log, and the member
\* that remains holds user-left with the roster it alone is in
C20_Witness ==
  \E s \in Sessions, t \in Sessions :
     /\ sock[s] = "closed"
     /\ currentRoom[t] # Null
     /\ Len(out[t]) = 1
     /\ out[t][1].event = "user-left"
     /\ out[t][1].userId = s
     /\ out[t][1].users = rooms[currentRoom[t]].users
     /\ Len(out[t][1].users) = 1
     /\ rooms[currentRoom[t]].drawingState.operations # <<>>

(***************************************************************************)
(* Operation ids, stored operations, colours and lookups.                  *)
(***************************************************************************)
\* the ids of the operations a log holds: each was returned by addOperation
StoredIds(ds) == { ds.operations[k].id : k \in 1..Len(ds.operations) }

\* C21, as stated: the id addOperation returns on a stroke-complete is
\* greater than every id it has returned before in that room; in particular
\* greater than the id of every operation the room's log holds at the call.
C21_IdsMonotonic ==
  [][\A s \in Sessions, data \in StrokeInputs(LogWidths), now \in Stamps :
        currentRoom[s] # Null /\ StrokeComplete(s, data, now, LogMaxOps) =>
          LET before == rooms[currentRoom[s]].drawingState
              after == rooms'[currentRoom[s]].drawingState
          IN \A id \in StoredIds(before) :
                after.operations[Len(after.operations)].id > id]_vars

\* a log-changing event of connection s other than clear-canvas
NonClearLogEventBy(s) ==
  \/ \E data \in StrokeInputs(LogWidths), now \in Stamps :
        StrokeComplete(s, data, now, LogMaxOps)
  \/ Undo(s)
  \/ Redo(s)
  \/ JoinRoom(s, NoRoomId, UsernameInput(s))

\* operations ops1 go on, unchanged and at their positions, in ops2
KeptIn(ops1, ops2) ==
  /\ Len(ops2) >= Len(ops1)
  /\ \A k \in 1..Len(ops1) : ops2[k] = ops1[k]

\* C22, as stated: a stored operation is never changed and is removed only by
\* clear(): after a stroke-complete, undo, redo or join (snapshot) every
\* operation the log held is still there, unchanged.
C22_StoredOnlyClearRemoves ==
  [][\A s \in Sessions :
        currentRoom[s] # Null /\ NonClearLogEventBy(s) =>
          KeptIn(rooms[currentRoom[s]].drawingState.operations,
                 rooms'[currentRoom[s]].drawingState.operations)]_vars

\* C22, amended: a stored operation is never changed; it is removed only by
\* clear() or by an addOperation made while it lies above currentIndex.
\* Undo, redo and the snapshot leave the operations as they are; after
\* addOperation the operations up to currentIndex are as they were and the
\* only other operation is the new one; after clear() none is left.
C22_StoredUntilDiscarded ==
  [][\A s \in Sessions :
        currentRoom[s] # Null =>
          LET before == rooms[currentRoom[s]].drawingState
              after == rooms'[currentRoom[s]].drawingState
          IN /\ Undo(s) \/ Redo(s) \/ JoinRoom(s, NoRoomId, UsernameInput(s)) =>
                  after.operations = before.operations
             /\ (\E data \in StrokeInputs(LogWidths), now \in Stamps :
                    StrokeComplete(s, data, now, LogMaxOps)) =>
                  /\ KeptIn(Prefix(before.operations, before.currentIndex),
                            after.operations)
                  /\ Len(after.operations) = before.currentIndex + 2
             /\ ClearCanvas(s) => after.operations = <<>>]_vars

\* the log holds an undone operation next to a kept one, and one operation has
\* just been added above a kept one
C22_Witness ==
  \E ds \in Logs :
     /\ Len(ds.operations) = 2
     /\ ds.currentIndex = 1
     /\ ds.operations[2].id = 1
     /\ ds.operations[1].lineWidth # ds.operations[2].lineWidth
     /\ out[1] # <<>> /\ out[1][1].event = "operation-added"

\* a registry whose room 'default' has a roster of sessions 1..n
Crowd(n) ==
  IF n = 0
  THEN NoRooms
  ELSE [r \in {DefaultRoom} |->
          [NewRoom(r) EXCEPT !.users =
             [i \in 1..n |-> [id |-> i, username |-> DefaultUsername(i),
                              color |-> userColors[((i - 1) % 10) + 1],
                              cursor |-> [x |-> 0, y |-> 0]]]]]

\* C23: addUserToRoom gives the new session the palette colour at index
\* (roster size of the room just before the join) mod 10: palette[0] to the
\* first session of an empty room.  Checked on every join-room, for the
\* roster the room has and for the same join made to a roster of any size up
\* to CrowdMax, where the eleventh session gets palette[0] again.
C23_ColorByRosterSize ==
  [][\A s \in Sessions :
        JoinRoom(s, NoRoomId, UsernameInput(s)) =>
          /\ LET n == Len(getRoomUsers(rooms, DefaultRoom))
             IN /\ out'[s][1].event = "room-joined"
                /\ out'[s][1].user.color = userColors[(n % 10) + 1]
                /\ MapGet(rooms'[DefaultRoom].users, s).color =
                     userColors[(n % 10) + 1]
                /\ n = 0 => out'[s][1].user.color = userColors[1]
          /\ \A n \in 0..CrowdMax :
                LET rms == Crowd(n)
                    added == addUserToRoom(rms, DefaultRoom, CrowdMax + s,
                                           UsernameInput(s))
                IN /\ Len(getRoomUsers(rms, DefaultRoom)) = n
                   /\ added.result.color = userColors[(n % 10) + 1]
                   /\ n = 0 => added.result.color = userColors[1]
                   /\ MapGet(added.rooms[DefaultRoom].users, CrowdMax + s).color =
                        added.result.color]_vars

\* the first socket has just joined a roster of one and got palette[1], after
\* another session has left
C23_Witness ==
  /\ out[1] # <<>>
  /\ out[1][1].event = "room-joined"
  /\ out[1][1].user.color = userColors[2]
  /\ Len(rooms[DefaultRoom].users) = 2
  /\ \E s \in Sessions : sock[s] = "closed"
  /\ addUserToRoom(Crowd(10), DefaultRoom, 11, NoName).result.color = userColors[1]

\* C24, as stated: no two sessions in the roster of a room have the same
\* colour, while the roster holds at most 10 sessions.
C24_UniqueColors ==
  \A r \in DOMAIN rooms :
     Len(rooms[r].users) <= Len(userColors) =>
       \A i, j \in 1..Len(rooms[r].users) :
          i # j => rooms[r].users[i].color # rooms[r].users[j].color

\* C25, as stated: every RoomManager lookup given an unknown room id creates
\* the room, so that the room is in the registry after the call.  getUser and
\* getRoomUsers return a value and leave the registry as it is; the calls
\* that return a registry are compared.
C25_LookupsFabricate ==
  \A r \in Rooms \ DOMAIN rooms, s \in Sessions :
     /\ r \in DOMAIN getRoom(rooms, r).rooms
     /\ r \in DOMAIN getDrawingState(rooms, r).rooms
     /\ r \in DOMAIN removeUserFromRoom(rooms, timers, r, s).rooms
     /\ \A cursor \in CursorInputs : r \in DOMAIN updateUserCursor(rooms, r, s, cursor)

\* registry rms2 is rms1 but for the cursor of session t in the roster of r
SameButCursor(rms1, rms2, r, t) ==
  /\ DOMAIN rms2 = DOMAIN rms1
  /\ \A q \in DOMAIN rms1 :
        /\ rms2[q].id = rms1[q].id
        /\ rms2[q].drawingState = rms1[q].drawingState
        /\ Len(rms2[q].users) = Len(rms1[q].users)
        /\ \A i \in 1..Len(rms1[q].users) :
              IF q = r /\ rms1[q].users[i].id = t
              THEN [rms2[q].users[i] EXCEPT !.cursor = rms1[q].users[i].cursor] =
                     rms1[q].users[i]
              ELSE rms2[q].users[i] = rms1[q].users[i]

\* C26: updateUserCursor(roomId, sessionId, point) changes only the cursor of
\* that session's roster entry, which becomes point; when the session is not
\* in the roster of that room, or the room does not exist, the registry is as
\* before: no entry and no room is created, no log changes.  Checked on every
\* cursor-move, for the call the handler makes and for the same point sent
\* for any room id and session.
C26_CursorOnly ==
  [][\A s \in Sessions, cursor \in CursorInputs :
        CursorMove(s, cursor) =>
          /\ IF currentRoom[s] = Null
             THEN rooms' = rooms
             ELSE /\ SameButCursor(rooms, rooms', currentRoom[s], s)
                  /\ getUser(rooms, currentRoom[s], s) # <<>> =>
                       getUser(rooms', currentRoom[s], s)[1].cursor = cursor
          /\ \A r \in Rooms, t \in Sessions :
                LET after == updateUserCursor(rooms, r, t, cursor)
                IN IF getUser(rooms, r, t) = <<>>
                   THEN after = rooms
                   ELSE /\ SameButCursor(rooms, after, r, t)
                        /\ getUser(after, r, t)[1].cursor = cursor]_vars

\* a cursor-move has just moved one cursor of a roster of two, with a room id
\* that has no room and a connection that has not joined
C26_Witness ==
  /\ DefaultRoom \in DOMAIN rooms
  /\ Len(rooms[DefaultRoom].users) = 2
  /\ \E i, j \in 1..2 :
        /\ rooms[DefaultRoom].users[i].cursor \in CursorInputs
        /\ rooms[DefaultRoom].users[j].cursor = [x |-> 0, y |-> 0]
        /\ out[rooms[DefaultRoom].users[j].id] # <<>>
        /\ out[rooms[DefaultRoom].users[j].id][1].event = "cursor-move"
  /\ DOMAIN rooms # Rooms

(***************************************************************************)
(* Properties of delivery and of what the clients display.                 *)
(***************************************************************************)
\* an inbound event of connection s that is answered with a broadcast
BroadcastEventBy(s) ==
  \/ \E roomId \in RoomIdInputs : JoinRoom(s, roomId, UsernameInput(s))
  \/ \E data \in OneStroke, now \in Stamps : StrokeComplete(s, data, now, MaxOps)

\* C27, as stated: an outbound event caused by an inbound event of a session
\* whose current room is A is delivered only to sessions whose current room
\* is A.  Checked for join-room (user-joined) and stroke-complete
\* (operation-added); the current room is the one after the event.
C27_DeliveryIsolation ==
  [][\A s \in Sessions :
        BroadcastEventBy(s) /\ currentRoom'[s] # Null =>
          \A t \in Sessions :
             out'[t] # <<>> => currentRoom'[t] = currentRoom'[s]]_vars

\* C28, as stated: any two clients joined to the same room display the same
\* sequence of strokes.  A step is a callback with its broadcast delivered
\* and handled, so every state is one where nothing is in flight.
C28_SameCanvas ==
  \A s, t \in Sessions :
     /\ sock[s] = "open" /\ sock[t] = "open"
     /\ currentRoom[s] # Null /\ currentRoom[t] = currentRoom[s]
     => canvas[s] = canvas[t]

\* C29, as stated: a client that had joined a room and lost its connection
\* receives, when it connects again, room-joined with the current snapshot of
\* the room, without a join-room.  A reconnection is a new socket; with one
\* closed socket, which emptied the room 'default' when it left, the socket
\* that connects next may be that client's.
C29_ReconnectResync ==
  [][\A s \in Sessions :
        /\ Connect(s)
        /\ Cardinality({t \in Sessions : sock[t] = "closed"}) = 1
        /\ emptyAge[DefaultRoom] # Null
        /\ DefaultRoom \in DOMAIN rooms
        => /\ out'[s] # <<>>
           /\ out'[s][1].event = "room-joined"
           /\ out'[s][1].drawingState =
                getFullState(rooms[DefaultRoom].drawingState).result]_vars

\* C30: undo() on a log with currentIndex >= 0 returns the operation at the
\* old currentIndex with newIndex = old currentIndex - 1, sets currentIndex
\* to newIndex and leaves operations as it was; redo() then returns the same
\* operation.  The undo-operation broadcast carries what undo() returned.
C30_UndoSucceeds ==
  /\ \A ds \in Logs :
        ds.currentIndex >= 0 =>
          LET undone == undo(ds)
          IN /\ undone.result # <<>>
             /\ undone.result[1].operation = ds.operations[ds.currentIndex + 1]
             /\ undone.result[1].newIndex = ds.currentIndex - 1
             /\ undone.ds.currentIndex = ds.currentIndex - 1
             /\ undone.ds.operations = ds.operations
             /\ redo(undone.ds).result # <<>>
             /\ redo(undone.ds).result[1].operation = undone.result[1].operation
  /\ \A s \in Sessions :
        \A k \in 1..Len(out[s]) :
           out[s][k].event = "undo-operation" =>
             LET ds == rooms[currentRoom[s]].drawingState
             IN /\ out[s][k].newIndex = ds.currentIndex
                /\ out[s][k].operation = ds.operations[ds.currentIndex + 2]

\* the last of three operations has just been undone; the next undo succeeds
C30_Witness ==
  /\ out[1] # <<>>
  /\ out[1][1].event = "undo-operation"
  /\ out[1][1].newIndex = 1
  /\ out[1][1].operation.id = 2
  /\ \E ds \in Logs : Len(ds.operations) = 3 /\ ds.currentIndex = 1

(***************************************************************************)
(* Further properties of the log, the registry and the clients.            *)
(***************************************************************************)
\* C31: redo() returns none and changes nothing exactly when currentIndex >=
\* operations.length - 1; otherwise it increments currentIndex by one,
\* returns the operation at the new currentIndex with newIndex equal to it,
\* and leaves operations as it was.  The redo-operation broadcast carries
\* what redo() returned.
C31_Redo ==
  /\ \A ds \in Logs :
        LET redone == redo(ds)
        IN /\ redone.result = <<>> <=> ds.currentIndex >= Len(ds.operations) - 1
           /\ redone.result = <<>> => redone.ds = ds
           /\ redone.result # <<>> =>
                /\ redone.ds.currentIndex = ds.currentIndex + 1
                /\ redone.result[1].newIndex = ds.currentIndex + 1
                /\ redone.result[1].operation = ds.operations[ds.currentIndex + 2]
                /\ redone.ds.operations = ds.operations
                /\ redone.ds.roomId = ds.roomId
  /\ \A s \in Sessions :
        \A k \in 1..Len(out[s]) :
           out[s][k].event = "redo-operation" =>
             LET ds == rooms[currentRoom[s]].drawingState
             IN /\ out[s][k].newIndex = ds.currentIndex
                /\ out[s][k].operation = ds.operations[ds.currentIndex + 1]

\* the second of three operations has just been redone; one more can be
C31_Witness ==
  /\ out[1] # <<>>
  /\ out[1][1].event = "redo-operation"
  /\ out[1][1].newIndex = 1
  /\ \E ds \in Logs : Len(ds.operations) = 3 /\ ds.currentIndex = 1

\* C32: in every reachable state of a log the operation stored at position i
\* (from 0) has id = i, and the id addOperation returns is currentIndex right
\* after the call, which is the position of the new operation.
C32_IdsArePositions ==
  \A ds \in Logs :
     /\ \A k \in 1..Len(ds.operations) : ds.operations[k].id = k - 1
     /\ \A operation \in OperationInputs, now \in Stamps :
           LET added == addOperation(ds, operation, now)
           IN /\ added.result = added.ds.currentIndex
              /\ added.ds.operations[added.ds.currentIndex + 1].id = added.result
              /\ Len(added.ds.operations) = added.result + 1

\* a log of three operations with two undone: the next add returns id 1
C32_Witness ==
  \E ds \in Logs :
     /\ Len(ds.operations) = 3
     /\ ds.currentIndex = 0
     /\ ds.operations[3].id = 2
     /\ \E operation \in OperationInputs, now \in Stamps :
           addOperation(ds, operation, now).result = 1

\* C33: the first getRoom(roomId) for an id creates a room with an empty log
\* (operations = [], currentIndex = -1) and an empty roster and leaves the
\* other rooms alone; a call for an id that has a room returns that room and
\* changes nothing, so a second call returns what the first returned.
C33_GetRoomIdempotent ==
  \A r \in Rooms :
     LET first == getRoom(rooms, r)
         second == getRoom(first.rooms, r)
     IN /\ second.rooms = first.rooms
        /\ second.result = first.result
        /\ first.result = first.rooms[r]
        /\ r \in DOMAIN rooms =>
             /\ first.rooms = rooms
             /\ first.result = rooms[r]
        /\ r \notin DOMAIN rooms =>
             /\ first.result.id = r
             /\ first.result.users = <<>>
             /\ first.result.drawingState.operations = <<>>
             /\ first.result.drawingState.currentIndex = -1
             /\ DOMAIN first.rooms = DOMAIN rooms \cup {r}
             /\ \A q \in DOMAIN rooms : first.rooms[q] = rooms[q]

\* a room with a user and a stroke, next to an id that has no room
C33_Witness ==
  /\ DefaultRoom \in DOMAIN rooms
  /\ Len(rooms[DefaultRoom].users) = 1
  /\ Len(rooms[DefaultRoom].drawingState.operations) = 1
  /\ rooms[DefaultRoom].drawingState.currentIndex = 0
  /\ Rooms \ DOMAIN rooms # {}

\* C34, as stated: the operation carried by operation-added is the stored
\* operation: it has the fields and values of the entry a later joiner gets
\* for it in the room-joined snapshot, server timestamp included.
C34_BroadcastIsStored ==
  \A s \in Sessions :
     \A k \in 1..Len(out[s]) :
        out[s][k].event = "operation-added" =>
          LET ds == rooms[currentRoom[s]].drawingState
              snapshot == getFullState(ds).result.operations
          IN out[s][k].data = snapshot[out[s][k].data.id + 1]

\* C35, as stated: after a client has handled an undo-operation broadcast,
\* the strokes it displays are the server's active history
\* operations[0..newIndex], in order.
C35_UndoRedraws ==
  \A s \in Sessions :
     sock[s] = "open" /\ out[s] # <<>> /\ out[s][Len(out[s])].event = "undo-operation" =>
       LET ds == rooms[currentRoom[s]].drawingState
           newIndex == out[s][Len(out[s])].newIndex
       IN canvas[s] = redrawFromHistory(Prefix(ds.operations, newIndex))

\* C36: any two consecutive cursor-move messages of one WebSocketManager are
\* emitted more than 50 ms apart by its clock, and the manager emits no
\* cursor-move, draw, stroke-complete, undo, redo or clear-canvas while its
\* connected flag is false.
C36_Throttle ==
  [][/\ wsm'.emitted # <<>> => wsm.connected
     /\ \A cursor \in CursorInputs, later \in {0, ClockStepMs} :
           SendCursorMove(cursor, later) /\ wsm'.emitted # <<>> =>
             /\ wsm'.emitted[1].event = "cursor-move"
             /\ wsm.cursorAt # Null => wsm.now - wsm.cursorAt > ThrottleMs]_vars

\* a second cursor-move has just been emitted, 75 ms after the first, after a
\* call 50 ms after the first was dropped
C36_Witness ==
  /\ wsm.emitted # <<>>
  /\ wsm.emitted[1].event = "cursor-move"
  /\ wsm.prevCursorAt # Null
  /\ wsm.cursorAt - wsm.prevCursorAt = ThrottleMs + ClockStepMs

\* an operation list by operation id and author
ByIdAndAuthor(ops) ==
  [k \in 1..Len(ops) |-> [id |-> ops[k].id, userId |-> ops[k].userId]]

\* the replica list after message m, as the claim builds it
ReplicaApply(list, m) ==
  CASE m.event = "room-joined" -> ByIdAndAuthor(m.drawingState.operations)
    [] m.event = "operation-added" ->
         Append(list, [id |-> m.data.id, userId |-> m.data.userId])
    [] m.event = "undo-operation" -> SubSeq(list, 1, Len(list) - 1)
    [] m.event = "redo-operation" ->
         Append(list, [id |-> m.operation.id, userId |-> m.operation.userId])
    [] m.event = "canvas-cleared" -> <<>>
    [] OTHER -> list

RECURSIVE ReplicaApplyAll(_, _)
ReplicaApplyAll(list, q) ==
  IF q = <<>> THEN list ELSE ReplicaApplyAll(ReplicaApply(list, Head(q)), Tail(q))

\* the server's active history operations[0..currentIndex] of the room of s
ActiveOf(rms, room) ==
  IF room # Null /\ room \in DOMAIN rms
  THEN ByIdAndAuthor(getActiveOperations(rms[room].drawingState).result)
  ELSE <<>>

\* C37: for a session that joined a room once, the list that starts from the
\* operations of its room-joined snapshot and applies each later broadcast
\* in arrival order equals, by id and author, the server's active history.
\* Stated as the step that keeps them equal: in every step, applying the
\* messages the session receives to the active history before the step gives
\* the active history after it; room-joined starts the list anew.
C37_ReplicaConverges ==
  [][\A s \in Sessions :
        sock'[s] = "open" /\ currentRoom'[s] # Null =>
          ReplicaApplyAll(ActiveOf(rooms, currentRoom[s]), out'[s]) =
            ActiveOf(rooms', currentRoom'[s])]_vars

\* the client that joined last has just received the redo of an operation,
\* the second of its list, sent by another client
C37_Witness ==
  \E s \in Sessions :
     /\ out[s] # <<>>
     /\ out[s][1].event = "redo-operation"
     /\ out[s][1].userId # s
     /\ out[s][1].newIndex = 1
     /\ rooms[currentRoom[s]].users[Len(rooms[currentRoom[s]].users)].id = s

\* C38, as stated: every session id in the roster of any room belongs to a
\* connection that has joined and has not disconnected.
C38_RosterIsLive ==
  \A r \in DOMAIN rooms :
     \A i \in 1..Len(rooms[r].users) :
        /\ sock[rooms[r].users[i].id] = "open"
        /\ currentRoom[rooms[r].users[i].id] # Null

\* a join-room, cursor-move or disconnect event of socket s is handled
RosterEventBy(s) ==
  \/ \E roomId \in RoomIdInputs : JoinRoom(s, roomId, UsernameInput(s))
  \/ \E cursor \in CursorInputs : CursorMove(s, cursor)
  \/ Disconnect(s)

\* C39: join-room, cursor-move and disconnect leave operations and
\* currentIndex of every existing room's log as they were; a log changes
\* only by a stroke-complete, undo, redo or clear-canvas of a session whose
\* room it is, and goes only when a fired timer deletes its room.
C39_LogFrame ==
  [][/\ \A s \in Sessions :
           RosterEventBy(s) =>
             \A r \in DOMAIN rooms : LogOf(rooms', r) = LogOf(rooms, r)
     /\ \A r \in DOMAIN rooms :
           LogOf(rooms', r) # LogOf(rooms, r) =>
             \/ /\ r \in DOMAIN rooms'
                /\ \E s \in Sessions : currentRoom[s] = r /\ LogEventBy(s)
             \/ /\ r \notin DOMAIN rooms'
                /\ \E i \in 1..Len(timers) :
                      timers[i].roomId = r /\ TimerFire(i)]_vars

\* the client has left; the room it left holds an undone stroke and the room
\* it had joined before holds a stroke
C39_Witness ==
  /\ sock[1] = "closed"
  /\ DOMAIN rooms = {DefaultRoom, 1}
  /\ \E r, q \in DOMAIN rooms :
        /\ r # q
        /\ Len(rooms[r].drawingState.operations) = 1
        /\ rooms[r].drawingState.currentIndex = -1
        /\ rooms[r].users = <<>>
        /\ rooms[q].drawingState.currentIndex = 0
        /\ Len(rooms[q].users) = 1
        /\ rooms[q].users[1].cursor \in CursorInputs

====
